---- MODULE Spec2Model ----
(***************************************************************************)
(* A model of the learning-go-book repository: the AnnounceChapter helper  *)
(* of internal/common, the exercises of internal/predeclared_types and the *)
(* array and slice tests of internal/composite_types.                      *)
(*                                                                         *)
(* One `go test` process runs the tests of one package, one after the      *)
(* other; pkg is the package of the process, pc the position inside the    *)
(* running test ("idle" between tests).  Text is a sequence of one-        *)
(* character strings, so that formatting is computed and not assumed.      *)
(* Fixed-width integers are little-endian sequences of bits (index 1 is    *)
(* the least significant bit), so that 2^64-1 and -2^31 are representable. *)
(***************************************************************************)
EXTENDS Integers, Sequences, FiniteSets, TLC

VARIABLES
    pkg,        \* the package whose tests this process runs
    pc,         \* position in the running test, "idle" between tests
    in,         \* the inputs of the running test (drawn when it starts)
    buffer,     \* the bytes.Buffer of the running test, as text
    stdout,     \* what the process wrote to os.Stdout, as text
    call,       \* the arguments of the last AnnounceChapter call, or NoCall
    ncalls,     \* number of AnnounceChapter calls made by the process
    num,        \* the integer locals of exerciseThree: b, smallI, bigI
    panicked,   \* a run-time panic was raised (and recovered by assert.Panics)
    idx,        \* the loop variable i of TestGoingOutOfBoundsAtRuntime
    reads,      \* the indexes the loop tried to read, in order
    runtimeCheck, \* the package-level array of composite_types
    heap,       \* the backing arrays allocated by the running test
    globals,    \* the package-level variables declared without a value: name -> value
    loc         \* the locals of the running test: name -> slice header (or int)

vars == <<pkg, pc, in, buffer, stdout, call, ncalls, num, panicked, idx, reads,
          runtimeCheck, heap, globals, loc>>

\* ------------------------------------------------------------------ bounds

\* AnnounceChapter calls one process makes
MaxCalls == 2

\* ------------------------------------------------------------------ text

Digit == <<"0", "1", "2", "3", "4", "5", "6", "7", "8", "9">>

RECURSIVE FormatNat(_)
\* strconv's decimal rendering of a natural number: most significant digit first
FormatNat(n) ==
    IF n < 10 THEN <<Digit[n + 1]>>
    ELSE FormatNat(n \div 10) \o <<Digit[(n % 10) + 1]>>

\* the %d verb on an int
FormatDecimal(n) == IF n < 0 THEN <<"-">> \o FormatNat(-n) ELSE FormatNat(n)

RECURSIVE Sprintf(_, _)
\* fmt's walk over a format string: %d and %s consume the next operand,
\* every other character is copied
Sprintf(format, operands) ==
    IF format = <<>> THEN <<>>
    ELSE IF Head(format) = "%" /\ Len(format) >= 2
    THEN (IF format[2] = "d" THEN FormatDecimal(Head(operands))
          ELSE Head(operands))
         \o Sprintf(Tail(Tail(format)), Tail(operands))
    ELSE <<Head(format)>> \o Sprintf(Tail(format), operands)

\* ------------------------------------------------------------------ internal/common

NoCall == [w |-> "none", chapter |-> 0, name |-> <<>>]

\* the format string without its newline
AnnounceFormatNoNewline ==
    <<"C", "h", "a", "p", "t", "e", "r", " ", "%", "d", ":", " ", "%", "s">>

\* the format string of announce.go:13, "Chapter %d: %s\n"
AnnounceFormat ==
    <<"C", "h", "a", "p", "t", "e", "r", " ", "%", "d", ":", " ", "%", "s", "\n">>

\* a helper that ignores its writer
AlwaysStdout(w) == "stdout"

\* the sink AnnounceChapter writes to: os.Stdout when w is nil
Sink(w) == IF w = "nil" THEN "stdout" ELSE w

\* the text AnnounceChapter writes
AnnounceText(chapter, name) == Sprintf(AnnounceFormat, <<chapter, name>>)

\* func AnnounceChapter(w io.Writer, chapter int, name string)
AnnounceChapter(w, chapter, name) ==
    /\ stdout' = IF Sink(w) = "stdout"
                 THEN stdout \o AnnounceText(chapter, name) ELSE stdout
    /\ buffer' = IF Sink(w) = "buffer"
                 THEN buffer \o AnnounceText(chapter, name) ELSE buffer
    /\ call' = [w |-> w, chapter |-> chapter, name |-> name]
    /\ ncalls' = ncalls + 1

Foo == <<"f", "o", "o">>

\* the chapter numbers and names the callers are drawn from
Chapters == {-12, 0, 1, 7, 305}
Names == {Foo, <<>>, <<"a", " ", "%", "d">>}

NoInput == [test |-> "none"]

UnchangedLocals == UNCHANGED <<num, panicked, idx, reads, runtimeCheck, heap, globals, loc>>

\* TestAnnouncesCorrectly, line 11: var buffer bytes.Buffer.  The test calls
\* with chapter 1 and name "foo"; here both are drawn.
TestAnnouncesCorrectly_Start ==
    /\ pkg = "common" /\ pc = "idle" /\ ncalls < MaxCalls
    /\ \E chapter \in Chapters, name \in Names :
        in' = [test |-> "TestAnnouncesCorrectly", chapter |-> chapter, name |-> name]
    /\ buffer' = <<>>
    /\ pc' = "tac_call"
    /\ UNCHANGED <<pkg, stdout, call, ncalls>>
    /\ UnchangedLocals

\* line 12: AnnounceChapter(&buffer, 1, "foo")
TestAnnouncesCorrectly_Call ==
    /\ pc = "tac_call"
    /\ AnnounceChapter("buffer", in.chapter, in.name)
    /\ pc' = "tac_assert"
    /\ UNCHANGED <<pkg, in>>
    /\ UnchangedLocals

\* line 13: the assertion reads the buffer; the test returns
TestAnnouncesCorrectly_Assert ==
    /\ pc = "tac_assert"
    /\ pc' = "idle"
    /\ in' = NoInput
    /\ UNCHANGED <<pkg, buffer, stdout, call, ncalls>>
    /\ UnchangedLocals

\* any other caller of the exported helper, with any writer
CallAnnounceChapter ==
    /\ pkg = "common" /\ pc = "idle" /\ ncalls < MaxCalls
    /\ \E w \in {"nil", "buffer"}, chapter \in Chapters, name \in Names :
        AnnounceChapter(w, chapter, name)
    /\ UNCHANGED <<pkg, pc, in>>
    /\ UnchangedLocals

\* ------------------------------------------------------------------ internal/predeclared_types

\* const chapterName = "Predeclared Types & Declarations"
chapterName ==
    <<"P", "r", "e", "d", "e", "c", "l", "a", "r", "e", "d", " ",
      "T", "y", "p", "e", "s", " ", "&", " ",
      "D", "e", "c", "l", "a", "r", "a", "t", "i", "o", "n", "s">>

\* func InitPredeclaredTypes(): common.AnnounceChapter(nil, 1, chapterName)
InitPredeclaredTypes ==
    /\ pkg = "predeclared_types" /\ pc = "idle" /\ ncalls < MaxCalls
    /\ AnnounceChapter("nil", 1, chapterName)
    /\ UNCHANGED <<pkg, pc, in>>
    /\ UnchangedLocals

\* --- fixed-width integers, as bits

Zeros(w) == [i \in 1..w |-> 0]
AllOnes(w) == [i \in 1..w |-> 1]
\* the largest value of the signed w-bit type: every bit but the sign bit
MaxSigned(w) == [i \in 1..w |-> IF i = w THEN 0 ELSE 1]
\* the smallest value of the signed w-bit type: the sign bit alone
MinSigned(w) == [i \in 1..w |-> IF i = w THEN 1 ELSE 0]

RECURSIVE Carry(_, _)
\* the ripple of a carry into bit i: a carry out of the top bit is dropped
Carry(x, i) ==
    IF i > Len(x) THEN x
    ELSE IF x[i] = 0 THEN [x EXCEPT ![i] = 1]
    ELSE Carry([x EXCEPT ![i] = 0], i + 1)

\* an increment that stops at the largest bit pattern instead of wrapping
Saturate(x) == IF \A i \in 1..Len(x) : x[i] = 1 THEN x ELSE Carry(x, 1)

\* an increment that stops at the largest signed value instead of wrapping
SaturateSigned(x) == IF x = MaxSigned(Len(x)) THEN x ELSE Carry(x, 1)

\* x++ on a fixed-width integer, signed or unsigned: addition modulo 2^w
Increment(x) == Carry(x, 1)

Complement(x) == [i \in 1..Len(x) |-> 1 - x[i]]

RECURSIVE DivMod10(_, _, _, _)
\* long division of the unsigned value of x by ten, from bit i down
DivMod10(x, i, r, q) ==
    IF i = 0 THEN [q |-> q, r |-> r]
    ELSE LET t == 2 * r + x[i] IN
         IF t >= 10 THEN DivMod10(x, i - 1, t - 10, [q EXCEPT ![i] = 1])
         ELSE DivMod10(x, i - 1, t, q)

RECURSIVE FormatUint(_)
\* the decimal rendering of an unsigned integer
FormatUint(x) ==
    LET d == DivMod10(x, Len(x), 0, Zeros(Len(x))) IN
    IF d.q = Zeros(Len(x)) THEN <<Digit[d.r + 1]>>
    ELSE FormatUint(d.q) \o <<Digit[d.r + 1]>>

\* the decimal rendering of a signed (two's complement) integer
FormatInt(x) ==
    IF x[Len(x)] = 1 THEN <<"-">> \o FormatUint(Increment(Complement(x)))
    ELSE FormatUint(x)

\* fmt.Fprintln: the operands' default formats, separated by spaces, then a newline
Fprintln(b, smallI, bigI) ==
    FormatUint(b) \o <<" ">> \o FormatInt(smallI) \o <<" ">> \o FormatUint(bigI) \o <<"\n">>

NoNum == [b |-> <<>>, smallI |-> <<>>, bigI |-> <<>>]

\* the values the three variables of exerciseThree are declared with: the
\* maximum of each type (the code's), and others
ByteInputs == {AllOnes(8), Zeros(8), MaxSigned(8)}
Int32Inputs == {MaxSigned(32), Zeros(32), AllOnes(32), MinSigned(32)}
Uint64Inputs == {AllOnes(64), Zeros(64), MaxSigned(64)}

UnchangedSlices == UNCHANGED <<panicked, idx, reads, runtimeCheck, heap, globals, loc>>

\* TestExerciseThree, line 66, and exerciseThree, lines 50-52
exerciseThree_Declare ==
    /\ pkg = "predeclared_types" /\ pc = "idle"
    /\ \E b \in ByteInputs, smallI \in Int32Inputs, bigI \in Uint64Inputs :
        /\ in' = [test |-> "TestExerciseThree", b |-> b, smallI |-> smallI, bigI |-> bigI]
        /\ num' = [b |-> b, smallI |-> smallI, bigI |-> bigI]
    /\ buffer' = <<>>
    /\ pc' = "ex3_b"
    /\ UNCHANGED <<pkg, stdout, call, ncalls>>
    /\ UnchangedSlices

\* line 53: b++
exerciseThree_IncB ==
    /\ pc = "ex3_b"
    /\ num' = [num EXCEPT !.b = Increment(@)]
    /\ pc' = "ex3_smallI"
    /\ UNCHANGED <<pkg, in, buffer, stdout, call, ncalls>>
    /\ UnchangedSlices

\* line 54: smallI++
exerciseThree_IncSmallI ==
    /\ pc = "ex3_smallI"
    /\ num' = [num EXCEPT !.smallI = Increment(@)]
    /\ pc' = "ex3_bigI"
    /\ UNCHANGED <<pkg, in, buffer, stdout, call, ncalls>>
    /\ UnchangedSlices

\* line 55: bigI++
exerciseThree_IncBigI ==
    /\ pc = "ex3_bigI"
    /\ num' = [num EXCEPT !.bigI = Increment(@)]
    /\ pc' = "ex3_print"
    /\ UNCHANGED <<pkg, in, buffer, stdout, call, ncalls>>
    /\ UnchangedSlices

\* line 56: fmt.Fprintln(writer, b, smallI, bigI)
exerciseThree_Print ==
    /\ pc = "ex3_print"
    /\ buffer' = buffer \o Fprintln(num.b, num.smallI, num.bigI)
    /\ pc' = "ex3_assert"
    /\ UNCHANGED <<pkg, in, num, stdout, call, ncalls>>
    /\ UnchangedSlices

\* line 68: the assertion reads the buffer; the test returns
TestExerciseThree_Assert ==
    /\ pc = "ex3_assert"
    /\ pc' = "idle"
    /\ in' = NoInput
    /\ num' = NoNum
    /\ UNCHANGED <<pkg, buffer, stdout, call, ncalls>>
    /\ UnchangedSlices

\* ------------------------------------------------------------------ internal/composite_types

\* --- the memory model of arrays and slices
\* heap is the sequence of backing arrays allocated so far; a slice is the header
\* [ptr, off, len, cap]: the array heap[ptr], the offset of the slice's element 0
\* in it, and the length and capacity counted from there.  ptr = 0 is the nil slice.

NilSlice == [ptr |-> 0, off |-> 0, len |-> 0, cap |-> 0]

\* a variable that starts out holding something other than its zero value
ZeroValueGarbage(T) ==
    CASE T = "int" -> 1
      [] T = "float64" -> 1
      [] T = "rune" -> 1
      [] T = "bool" -> TRUE
      [] T = "string" -> "?"
      [] T = "slice" -> [ptr |-> 1, off |-> 0, len |-> 1, cap |-> 1]

\* what a variable of type T holds when it is declared without a value.  A
\* float64 is held as the number it denotes.
ZeroValue(T) ==
    CASE T = "int" -> 0
      [] T = "float64" -> 0
      [] T = "rune" -> 0
      [] T = "bool" -> FALSE
      [] T = "string" -> ""
      [] T = "slice" -> NilSlice

\* var a [n]T: every element holds the zero value of T
ZeroArray(n, T) == [j \in 1..n |-> ZeroValue(T)]

\* element types: the size in bytes and the zero value.  int is 8 bytes and a
\* string header 16: the 64-bit platform, on which cap(empty) == 1 (line 527) holds
IntT == [size |-> 8, zero |-> ZeroValue("int")]
StringT == [size |-> 16, zero |-> ZeroValue("string")]

\* the elements seen through slice s
Elems(h, s) == IF s.ptr = 0 THEN <<>> ELSE SubSeq(h[s.ptr], s.off + 1, s.off + s.len)

\* a composite literal []T{vals}: a new array holding vals, len = cap = the count
SliceLiteral(h, vals) ==
    [heap |-> Append(h, vals),
     slice |-> [ptr |-> Len(h) + 1, off |-> 0, len |-> Len(vals), cap |-> Len(vals)]]

\* a make that hands out the array allocated last, when there is one
MakeReuse(h, n, c, T) ==
    IF h = <<>>
    THEN [heap |-> Append(h, [j \in 1..c |-> T.zero]),
          slice |-> [ptr |-> Len(h) + 1, off |-> 0, len |-> n, cap |-> c]]
    ELSE [heap |-> h, slice |-> [ptr |-> Len(h), off |-> 0, len |-> n, cap |-> c]]

\* make([]T, n, c): a new array of c zero values
Make(h, n, c, T) ==
    [heap |-> Append(h, [j \in 1..c |-> T.zero]),
     slice |-> [ptr |-> Len(h) + 1, off |-> 0, len |-> n, cap |-> c]]

\* the run-time bounds check of s[i]
InRange(s, i) == 0 <= i /\ i < s.len

\* v := s[i]
Load(h, s, i) == h[s.ptr][s.off + i + 1]

\* s[i] = v
Store(h, s, i, v) == [h EXCEPT ![s.ptr][s.off + i + 1] = v]

\* a slice expression that copies the selected elements into a new array
SliceExprCopy(h, s, lo, hi) ==
    [heap |-> Append(h, SubSeq(h[s.ptr], s.off + lo + 1, s.off + hi)),
     slice |-> [ptr |-> Len(h) + 1, off |-> 0, len |-> hi - lo, cap |-> hi - lo]]

\* a slice expression whose result has no capacity beyond its length
SliceExprCapIsLen(h, s, lo, hi) ==
    [heap |-> h,
     slice |-> [ptr |-> s.ptr, off |-> s.off + lo, len |-> hi - lo, cap |-> hi - lo]]

\* a slice expression that counts its elements from the start of s, not from lo
SliceExprFromStart(h, s, lo, hi) ==
    [heap |-> h,
     slice |-> [ptr |-> s.ptr, off |-> s.off, len |-> hi - lo, cap |-> s.cap - lo]]

\* a slice expression that counts the capacity from its stop index
SliceExprCapFromStop(h, s, lo, hi) ==
    [heap |-> h,
     slice |-> [ptr |-> s.ptr, off |-> s.off + lo, len |-> hi - lo, cap |-> s.cap - hi]]

\* the simple slice expression s[lo:hi] (0 <= lo <= hi <= cap(s)): the same
\* array, seen from lo; nothing is allocated
SliceExpr(h, s, lo, hi) ==
    [heap |-> h,
     slice |-> [ptr |-> s.ptr, off |-> s.off + lo, len |-> hi - lo, cap |-> s.cap - lo]]

\* a full slice expression that ignores its third index
FullSliceExprIgnoreMax(h, s, lo, hi, max) ==
    [heap |-> h,
     slice |-> [ptr |-> s.ptr, off |-> s.off + lo, len |-> hi - lo, cap |-> s.cap - lo]]

\* the full slice expression s[lo:hi:max] (0 <= lo <= hi <= max <= cap(s)): the
\* same array, seen from lo, with the capacity cut at max
FullSliceExpr(h, s, lo, hi, max) ==
    [heap |-> h,
     slice |-> [ptr |-> s.ptr, off |-> s.off + lo, len |-> hi - lo, cap |-> max - lo]]

\* a copy that fills the destination up to its capacity
GoCopyToCap(h, dst, src) ==
    LET n == IF dst.cap < src.len THEN dst.cap ELSE src.len IN
    [heap |-> IF n = 0 THEN h
              ELSE [h EXCEPT ![dst.ptr] =
                       [j \in 1..Len(@) |->
                           IF j > dst.off /\ j <= dst.off + n
                           THEN h[src.ptr][src.off + (j - dst.off)] ELSE @[j]]],
     n |-> n]

\* copy(dst, src): the first min(len(dst), len(src)) elements of src are stored
\* in dst; the result is that count
GoCopy(h, dst, src) ==
    LET n == IF dst.len < src.len THEN dst.len ELSE src.len IN
    [heap |-> IF n = 0 THEN h
              ELSE [h EXCEPT ![dst.ptr] =
                       [j \in 1..Len(@) |->
                           IF j > dst.off /\ j <= dst.off + n
                           THEN h[src.ptr][src.off + (j - dst.off)] ELSE @[j]]],
     n |-> n]

\* a clear that stops one element short
ClearAllButLast(h, s, T) ==
    IF s.ptr = 0 THEN h
    ELSE [h EXCEPT ![s.ptr] =
             [j \in 1..Len(@) |->
                 IF j > s.off /\ j < s.off + s.len THEN T.zero ELSE @[j]]]

\* clear(s): every element of s, index 0 to len(s)-1, is set to the zero value;
\* the slice header is passed by value and stays as it is
Clear(h, s, T) ==
    IF s.ptr = 0 THEN h
    ELSE [h EXCEPT ![s.ptr] =
             [j \in 1..Len(@) |->
                 IF j > s.off /\ j <= s.off + s.len THEN T.zero ELSE @[j]]]

\* --- arrays made from slices.  An array variable is storage of its own: it is
\* held as a header over a heap array, like a slice with cap = len.

\* len(a) and cap(a) of an array: the number of elements of its type
ArrayLen(a) == Len(a)
ArrayCap(a) == Len(a)

\* a keyed array literal [n]T{i: v, ...}, keyed a function from the indexes
\* named to their values: the indexes not named hold the zero value
KeyedArray(n, keyed, T) ==
    [j \in 1..n |-> IF (j - 1) \in DOMAIN keyed THEN keyed[j - 1] ELSE ZeroValue(T)]

\* a package-level slice variable set from a literal: not nil, its elements
\* in an array of its own, len = cap = their number
PackageSlice(vals) ==
    [nil |-> FALSE, elems |-> vals, len |-> Len(vals), cap |-> Len(vals)]

\* slices.Equal(a, b): the same length and equal elements, index by index
SlicesEqual(a, b) ==
    /\ a.len = b.len
    /\ \A j \in 1..a.len : a.elems[j] = b.elems[j]

\* a check of the conversion against the capacity of the slice
ConvertibleByCap(s, n) == s.cap >= n

\* the run-time check of the conversions [n]T(s) and (*[n]T)(s): the slice
\* must be at least as long as the array, else the conversion panics
Convertible(s, n) == s.len >= n

\* a conversion that makes the array out of the slice's own storage
ArrayFromSliceShared(h, s, n) ==
    [heap |-> h, arr |-> [ptr |-> s.ptr, off |-> s.off, len |-> n, cap |-> n]]

\* the conversion [n]T(s), for len(s) >= n: a new array holding copies of the
\* first n elements of s
ArrayFromSlice(h, s, n) ==
    [heap |-> Append(h, SubSeq(h[s.ptr], s.off + 1, s.off + n)),
     arr |-> [ptr |-> Len(h) + 1, off |-> 0, len |-> n, cap |-> n]]

\* a pointer conversion that points at a copy of the elements
ArrayPtrFromSliceCopied(h, s, n) ==
    [heap |-> Append(h, SubSeq(Elems(h, s), 1, n)),
     arr |-> [ptr |-> Len(h) + 1, off |-> 0, len |-> n, cap |-> n]]

\* the conversion (*[n]T)(s), for len(s) >= n: a pointer to the slice's own
\* storage, from its element 0
ArrayPtrFromSlice(h, s, n) ==
    [heap |-> h, arr |-> [ptr |-> s.ptr, off |-> s.off, len |-> n, cap |-> n]]

\* --- strings.  A string value is the sequence of its bytes (0..255); a string
\* literal of the source is a sequence of code points, held in the string as
\* their UTF-8 encodings.

\* an encoding that gives every code point one byte
EncodeRuneOneByte(r) == <<r % 256>>

\* the UTF-8 encoding of code point r (a valid one: the compiler rejects others
\* in a literal)
EncodeRune(r) ==
    IF r < 128 THEN <<r>>
    ELSE IF r < 2048 THEN <<192 + (r \div 64), 128 + (r % 64)>>
    ELSE IF r < 65536
         THEN <<224 + (r \div 4096), 128 + ((r \div 64) % 64), 128 + (r % 64)>>
         ELSE <<240 + (r \div 262144), 128 + ((r \div 4096) % 64),
                128 + ((r \div 64) % 64), 128 + (r % 64)>>

\* the string a literal of these code points denotes
RECURSIVE StringLit(_)
StringLit(runes) ==
    IF runes = <<>> THEN <<>>
    ELSE EncodeRune(Head(runes)) \o StringLit(Tail(runes))

\* a continuation byte of UTF-8
IsCont(x) == 128 <= x /\ x <= 191

\* the first code point of the non-empty byte sequence b and the bytes it
\* takes; a byte that starts no valid encoding is U+FFFD, taking one byte
DecodeRune(b) ==
    LET b1 == b[1]
        bad == [rune |-> 65533, size |-> 1]
        two == (b1 - 192) * 64 + (b[2] - 128)
        three == (b1 - 224) * 4096 + (b[2] - 128) * 64 + (b[3] - 128)
        four == (b1 - 240) * 262144 + (b[2] - 128) * 4096 + (b[3] - 128) * 64 + (b[4] - 128)
    IN  IF b1 < 128 THEN [rune |-> b1, size |-> 1]
        ELSE IF 194 <= b1 /\ b1 <= 223
        THEN IF Len(b) >= 2 /\ IsCont(b[2])
             THEN [rune |-> two, size |-> 2] ELSE bad
        ELSE IF 224 <= b1 /\ b1 <= 239
        THEN IF Len(b) >= 3 /\ IsCont(b[2]) /\ IsCont(b[3])
                /\ three >= 2048 /\ ~(55296 <= three /\ three <= 57343)
             THEN [rune |-> three, size |-> 3] ELSE bad
        ELSE IF 240 <= b1 /\ b1 <= 244
        THEN IF Len(b) >= 4 /\ IsCont(b[2]) /\ IsCont(b[3]) /\ IsCont(b[4])
                /\ four >= 65536 /\ four <= 1114111
             THEN [rune |-> four, size |-> 4] ELSE bad
        ELSE bad

\* the code points of string b, as []rune(b) and range see them
RECURSIVE DecodeRunes(_)
DecodeRunes(b) ==
    IF b = <<>> THEN <<>>
    ELSE LET d == DecodeRune(b) IN
         <<d.rune>> \o DecodeRunes(SubSeq(b, d.size + 1, Len(b)))

\* s[lo:hi] of a string (0 <= lo <= hi <= len(s)): the bytes lo..hi-1
StringSlice(s, lo, hi) == SubSeq(s, lo + 1, hi)

\* s[i] of a string (0 <= i < len(s)): the byte at i
StringIndex(s, i) == s[i + 1]

\* the code points of the literals "hello", "world" and "Hi"
Hello == <<104, 101, 108, 108, 111>>
World == <<119, 111, 114, 108, 100>>
Hi == <<72, 105>>

\* the code points drawn for the non-ASCII one of the literals: U+0961 (the
\* code's), and one each of 2, 1 and 4 bytes
CodePoints == {2401, 1510, 89, 128512}

\* the capacity below which append doubles
Threshold == 256

\* the allocator's size classes, in bytes
SizeClasses ==
    <<8, 16, 24, 32, 48, 64, 80, 96, 112, 128, 144, 160, 176, 192, 208, 224, 240,
      256, 288, 320, 352, 384, 416, 448, 480, 512, 576, 640, 704, 768, 896, 1024,
      1152, 1280, 1408, 1536, 1792, 2048, 2304, 2688, 3072, 3200, 3456, 4096,
      4864, 5120, 5376, 6144, 6528, 6784, 6912, 8192, 9472, 9728, 10240, 10880,
      12288, 13568, 14336, 16384, 18432, 19072, 20480, 21760, 24576, 27264,
      28672, 32768>>

\* the bytes the allocator hands out for a request of size bytes: the smallest
\* size class that holds it, and above the largest class whole pages of 8192
Roundupsize(size) ==
    IF size = 0 THEN 0
    ELSE IF size > SizeClasses[Len(SizeClasses)]
         THEN ((size + 8191) \div 8192) * 8192
    ELSE LET k == CHOOSE k \in 1..Len(SizeClasses) :
                    /\ SizeClasses[k] >= size
                    /\ \A j \in 1..(k - 1) : SizeClasses[j] < size
         IN SizeClasses[k]

RECURSIVE GrowLoop(_, _)
\* above the threshold: grow by (cap + 3*256)/4 until the new length fits
GrowLoop(newcap, newLen) ==
    LET n == newcap + ((newcap + 3 * Threshold) \div 4) IN
    IF n >= newLen THEN n ELSE GrowLoop(n, newLen)

\* a growth rule that allocates exactly the length asked for
GrowExact(oldCap, newLen, T) == newLen

\* the capacity append allocates when newLen elements do not fit in oldCap
Growslice(oldCap, newLen, T) ==
    LET doublecap == oldCap + oldCap
        newcap == IF newLen > doublecap THEN newLen
                  ELSE IF oldCap < Threshold THEN doublecap
                  ELSE GrowLoop(oldCap, newLen)
    IN Roundupsize(newcap * T.size) \div T.size

\* an append that reallocates on every call, even when the capacity suffices
GoAppendAlwaysRealloc(h, s, vals, T) ==
    LET newLen == s.len + Len(vals)
        newcap == Growslice(s.cap, newLen, T)
    IN [heap |-> Append(h, Elems(h, s) \o vals \o [j \in 1..(newcap - newLen) |-> T.zero]),
        slice |-> [ptr |-> Len(h) + 1, off |-> 0, len |-> newLen, cap |-> newcap]]

\* an append that writes the new elements from index 0 on
GoAppendAtFront(h, s, vals, T) ==
    LET newLen == s.len + Len(vals) IN
    IF newLen <= s.cap
    THEN [heap |-> IF vals = <<>> THEN h
                   ELSE [h EXCEPT ![s.ptr] =
                            [j \in 1..Len(@) |->
                                IF j > s.off /\ j <= s.off + Len(vals)
                                THEN vals[j - s.off] ELSE @[j]]],
          slice |-> [s EXCEPT !.len = newLen]]
    ELSE LET newcap == Growslice(s.cap, newLen, T) IN
         [heap |-> Append(h, vals \o Elems(h, s)
                             \o [j \in 1..(newcap - newLen) |-> T.zero]),
          slice |-> [ptr |-> Len(h) + 1, off |-> 0, len |-> newLen, cap |-> newcap]]

\* append(s, vals...): in place when the new length fits the capacity, else
\* into a new, larger array that the old elements are copied to
GoAppend(h, s, vals, T) ==
    LET newLen == s.len + Len(vals) IN
    IF newLen <= s.cap
    THEN [heap |-> IF vals = <<>> THEN h
                   ELSE [h EXCEPT ![s.ptr] =
                            [j \in 1..Len(@) |->
                                IF j > s.off + s.len /\ j <= s.off + newLen
                                THEN vals[j - s.off - s.len] ELSE @[j]]],
          slice |-> [s EXCEPT !.len = newLen]]
    ELSE LET newcap == Growslice(s.cap, newLen, T) IN
         [heap |-> Append(h, Elems(h, s) \o vals
                             \o [j \in 1..(newcap - newLen) |-> T.zero]),
          slice |-> [ptr |-> Len(h) + 1, off |-> 0, len |-> newLen, cap |-> newcap]]

NoLoc == [none |-> NilSlice]

UnchangedOutput == UNCHANGED <<pkg, buffer, stdout, call, ncalls, num, globals>>

\* a test of composite_types returns: its locals and their arrays are dropped
Return ==
    /\ pc' = "idle"
    /\ in' = NoInput
    /\ heap' = <<>>
    /\ loc' = NoLoc
    /\ panicked' = FALSE
    /\ idx' = 0
    /\ reads' = <<>>
    /\ UNCHANGED runtimeCheck
    /\ UnchangedOutput

\* --- TestGoingOutOfBoundsAtRuntime

\* a bounds check that lets the index one past the end through
ArrayInRangeOffByOne(a, i) == 0 <= i /\ i <= Len(a)

\* the run-time bounds check of a[i] on an array
ArrayInRange(a, i) == 0 <= i /\ i < Len(a)

\* line 346: for i := 3; ...  The code starts at 3; here the start is drawn.
TestGoingOutOfBoundsAtRuntime_Start ==
    /\ pkg = "composite_types" /\ pc = "idle"
    /\ \E start \in 0..4 :
        /\ in' = [test |-> "TestGoingOutOfBoundsAtRuntime", start |-> start]
        /\ idx' = start
    /\ pc' = "oob_loop"
    /\ UNCHANGED <<panicked, reads, runtimeCheck, heap, loc>>
    /\ UnchangedOutput

\* lines 346-348: one iteration of for ...; i < 5; i++ { _ = runtimeCheck[i] },
\* or the loop's end.  The index is checked against the array's length at run time.
TestGoingOutOfBoundsAtRuntime_Loop ==
    /\ pc = "oob_loop"
    /\ IF idx < 5
       THEN /\ reads' = Append(reads, idx)
            /\ IF ArrayInRange(runtimeCheck, idx)
               THEN /\ idx' = idx + 1
                    /\ UNCHANGED <<pc, panicked>>
               ELSE /\ panicked' = TRUE
                    /\ pc' = "oob_recovered"
                    /\ UNCHANGED idx
       ELSE /\ pc' = "oob_recovered"
            /\ UNCHANGED <<reads, idx, panicked>>
    /\ UNCHANGED <<in, runtimeCheck, heap, loc>>
    /\ UnchangedOutput

\* line 350: assert.Panics recovers the panic; the test returns
TestGoingOutOfBoundsAtRuntime_Assert ==
    /\ pc = "oob_recovered"
    /\ Return

\* --- TestSlicingSliceMemory

\* line 653: s := []int{1, 2, 3, 4, 5}.  The later steps' inputs are drawn: the
\* stop index of the slice expression (5 in the code), the variable written
\* through (s in the code), the index (0) and the value (100).
TestSlicingSliceMemory_Start ==
    /\ pkg = "composite_types" /\ pc = "idle"
    /\ \E hi \in 0..5, via \in {"s", "other"}, i \in 0..4, v \in {100, 7} :
        in' = [test |-> "TestSlicingSliceMemory", hi |-> hi, via |-> via, i |-> i, v |-> v]
    /\ LET r == SliceLiteral(heap, <<1, 2, 3, 4, 5>>) IN
        /\ heap' = r.heap
        /\ loc' = [s |-> r.slice]
    /\ pc' = "ssm_slice"
    /\ UNCHANGED <<panicked, idx, reads, runtimeCheck>>
    /\ UnchangedOutput

\* line 654: other := s[:5]
TestSlicingSliceMemory_Slice ==
    /\ pc = "ssm_slice"
    /\ LET r == SliceExpr(heap, loc.s, 0, in.hi) IN
        /\ heap' = r.heap
        /\ loc' = [s |-> loc.s, other |-> r.slice]
    /\ pc' = "ssm_store"
    /\ UNCHANGED <<in, panicked, idx, reads, runtimeCheck>>
    /\ UnchangedOutput

\* line 657: s[0] = 100, with its run-time bounds check
TestSlicingSliceMemory_Store ==
    /\ pc = "ssm_store"
    /\ IF InRange(loc[in.via], in.i)
       THEN /\ heap' = Store(heap, loc[in.via], in.i, in.v)
            /\ UNCHANGED panicked
       ELSE /\ panicked' = TRUE
            /\ UNCHANGED heap
    /\ pc' = "ssm_assert"
    /\ UNCHANGED <<in, loc, idx, reads, runtimeCheck>>
    /\ UnchangedOutput

\* lines 662-663: the assertions read both slices; the test returns
TestSlicingSliceMemory_Assert ==
    /\ pc = "ssm_assert"
    /\ Return

\* --- TestCapacityAllocation

\* line 514: empty := []int{}.  The appended values (1, 2, 3 in the code) are drawn.
TestCapacityAllocation_Start ==
    /\ pkg = "composite_types" /\ pc = "idle"
    /\ \E vals \in {<<1, 2, 3>>, <<0, 0, 9>>} :
        in' = [test |-> "TestCapacityAllocation", vals |-> vals]
    /\ LET r == SliceLiteral(heap, <<>>) IN
        /\ heap' = r.heap
        /\ loc' = [empty |-> r.slice]
    /\ pc' = "tca_append_empty"
    /\ UNCHANGED <<panicked, idx, reads, runtimeCheck>>
    /\ UnchangedOutput

\* line 525: empty = append(empty, 1)
TestCapacityAllocation_AppendEmpty ==
    /\ pc = "tca_append_empty"
    /\ LET r == GoAppend(heap, loc.empty, <<in.vals[1]>>, IntT) IN
        /\ heap' = r.heap
        /\ loc' = [loc EXCEPT !.empty = r.slice]
    /\ pc' = "tca_start"
    /\ UNCHANGED <<in, panicked, idx, reads, runtimeCheck>>
    /\ UnchangedOutput

\* line 535: start := []int{1}
TestCapacityAllocation_LiteralStart ==
    /\ pc = "tca_start"
    /\ LET r == SliceLiteral(heap, <<in.vals[1]>>) IN
        /\ heap' = r.heap
        /\ loc' = [empty |-> loc.empty, start |-> r.slice]
    /\ pc' = "tca_append2"
    /\ UNCHANGED <<in, panicked, idx, reads, runtimeCheck>>
    /\ UnchangedOutput

\* line 539: start = append(start, 2)
TestCapacityAllocation_Append2 ==
    /\ pc = "tca_append2"
    /\ LET r == GoAppend(heap, loc.start, <<in.vals[2]>>, IntT) IN
        /\ heap' = r.heap
        /\ loc' = [loc EXCEPT !.start = r.slice]
    /\ pc' = "tca_append3"
    /\ UNCHANGED <<in, panicked, idx, reads, runtimeCheck>>
    /\ UnchangedOutput

\* line 542: start = append(start, 3)
TestCapacityAllocation_Append3 ==
    /\ pc = "tca_append3"
    /\ LET r == GoAppend(heap, loc.start, <<in.vals[3]>>, IntT) IN
        /\ heap' = r.heap
        /\ loc' = [loc EXCEPT !.start = r.slice]
    /\ pc' = "tca_assert"
    /\ UNCHANGED <<in, panicked, idx, reads, runtimeCheck>>
    /\ UnchangedOutput

\* lines 543-546: the assertions; the test returns
TestCapacityAllocation_Assert ==
    /\ pc = "tca_assert"
    /\ Return

\* --- TestSliceCommonMistakeAppend

\* the ten values appended at line 583
Line583Values == <<12, 13, 14, 15, 16, 17, 18, 19, 20, 21>>

\* line 568: s := make([]int, 10, 20).  The value of the first append (2 in the
\* code), how many of the ten values the second append takes (all ten in the
\* code) and the length made (10 in the code, the capacity 10 above it) are drawn.
TestSliceCommonMistakeAppend_Start ==
    /\ pkg = "composite_types" /\ pc = "idle"
    /\ \E v \in {2, 5}, k \in 0..Len(Line583Values), n \in {10, 246, 502} :
        /\ in' = [test |-> "TestSliceCommonMistakeAppend", v |-> v, k |-> k,
                  n |-> n, c |-> n + 10]
        /\ LET r == Make(heap, n, n + 10, IntT) IN
            /\ heap' = r.heap
            /\ loc' = [s |-> r.slice]
    /\ pc' = "scm_append1"
    /\ UNCHANGED <<panicked, idx, reads, runtimeCheck>>
    /\ UnchangedOutput

\* line 572: s = append(s, 2)
TestSliceCommonMistakeAppend_Append1 ==
    /\ pc = "scm_append1"
    /\ LET r == GoAppend(heap, loc.s, <<in.v>>, IntT) IN
        /\ heap' = r.heap
        /\ loc' = [loc EXCEPT !.s = r.slice]
    /\ pc' = "scm_append2"
    /\ UNCHANGED <<in, panicked, idx, reads, runtimeCheck>>
    /\ UnchangedOutput

\* line 583: s = append(s, 12, 13, 14, 15, 16, 17, 18, 19, 20, 21)
TestSliceCommonMistakeAppend_Append2 ==
    /\ pc = "scm_append2"
    /\ LET r == GoAppend(heap, loc.s, SubSeq(Line583Values, 1, in.k), IntT) IN
        /\ heap' = r.heap
        /\ loc' = [loc EXCEPT !.s = r.slice]
    /\ pc' = "scm_assert"
    /\ UNCHANGED <<in, panicked, idx, reads, runtimeCheck>>
    /\ UnchangedOutput

\* lines 584-585: the assertions; the test returns
TestSliceCommonMistakeAppend_Assert ==
    /\ pc = "scm_assert"
    /\ Return

\* --- TestSlicesAppend

\* the slice appended at line 485
Line485Values == <<"D", "E", "F">>

\* line 483: s := []string{"A", "B", "C"}.  Drawn: the element of the first
\* append ("Z" in the code), how many of D, E, F the second takes (all three)
\* and the element of the discarded append (2).
TestSlicesAppend_Start ==
    /\ pkg = "composite_types" /\ pc = "idle"
    /\ \E first \in {"Z", "A"}, m \in 0..Len(Line485Values), dropped \in {2, 1} :
        in' = [test |-> "TestSlicesAppend", first |-> first, m |-> m, dropped |-> dropped]
    /\ LET r == SliceLiteral(heap, <<"A", "B", "C">>) IN
        /\ heap' = r.heap
        /\ loc' = [s |-> r.slice]
    /\ pc' = "tsa_append1"
    /\ UNCHANGED <<panicked, idx, reads, runtimeCheck>>
    /\ UnchangedOutput

\* line 484: s = append(s, "Z")
TestSlicesAppend_Append1 ==
    /\ pc = "tsa_append1"
    /\ LET r == GoAppend(heap, loc.s, <<in.first>>, StringT) IN
        /\ heap' = r.heap
        /\ loc' = [loc EXCEPT !.s = r.slice]
    /\ pc' = "tsa_append2"
    /\ UNCHANGED <<in, panicked, idx, reads, runtimeCheck>>
    /\ UnchangedOutput

\* line 485: s = append(s, []string{"D", "E", "F"}...)
TestSlicesAppend_Append2 ==
    /\ pc = "tsa_append2"
    /\ LET r == GoAppend(heap, loc.s, SubSeq(Line485Values, 1, in.m), StringT) IN
        /\ heap' = r.heap
        /\ loc' = [loc EXCEPT !.s = r.slice]
    /\ pc' = "tsa_s2"
    /\ UNCHANGED <<in, panicked, idx, reads, runtimeCheck>>
    /\ UnchangedOutput

\* line 489: s2 := []int{1}
TestSlicesAppend_LiteralS2 ==
    /\ pc = "tsa_s2"
    /\ LET r == SliceLiteral(heap, <<1>>) IN
        /\ heap' = r.heap
        /\ loc' = [s |-> loc.s, s2 |-> r.slice]
    /\ pc' = "tsa_discard"
    /\ UNCHANGED <<in, panicked, idx, reads, runtimeCheck>>
    /\ UnchangedOutput

\* an assignment that stores the result in the variable after all
AssignBack(l, name, slice) == [l EXCEPT ![name] = slice]

\* _ = x: the value is dropped, no variable changes
AssignBlank(l, name, slice) == l

\* line 491: _ = append(s2, 2)
TestSlicesAppend_Discard ==
    /\ pc = "tsa_discard"
    /\ LET r == GoAppend(heap, loc.s2, <<in.dropped>>, IntT) IN
        /\ heap' = r.heap
        /\ loc' = AssignBlank(loc, "s2", r.slice)
    /\ pc' = "tsa_assert"
    /\ UNCHANGED <<in, panicked, idx, reads, runtimeCheck>>
    /\ UnchangedOutput

\* lines 486, 493: the assertions; the test returns
TestSlicesAppend_Assert ==
    /\ pc = "tsa_assert"
    /\ Return

\* --- TestFunkySlicingAppendCapacity

\* line 670: s := []string{"A", "B", "C", "D"}.  Drawn: the bounds of the slice
\* expression (s[:2] in the code, that is 0 and 2) and the appended element ("Foo").
TestFunkySlicingAppendCapacity_Start ==
    /\ pkg = "composite_types" /\ pc = "idle"
    /\ \E lo \in 0..2, hi \in 0..4, elem \in {"Foo", "A"} :
        /\ lo <= hi
        /\ in' = [test |-> "TestFunkySlicingAppendCapacity",
                  lo |-> lo, hi |-> hi, elem |-> elem]
    /\ LET r == SliceLiteral(heap, <<"A", "B", "C", "D">>) IN
        /\ heap' = r.heap
        /\ loc' = [s |-> r.slice]
    /\ pc' = "fsa_slice"
    /\ UNCHANGED <<panicked, idx, reads, runtimeCheck>>
    /\ UnchangedOutput

\* line 674: y := s[:2]
TestFunkySlicingAppendCapacity_Slice ==
    /\ pc = "fsa_slice"
    /\ LET r == SliceExpr(heap, loc.s, in.lo, in.hi) IN
        /\ heap' = r.heap
        /\ loc' = [s |-> loc.s, y |-> r.slice]
    /\ pc' = "fsa_append"
    /\ UNCHANGED <<in, panicked, idx, reads, runtimeCheck>>
    /\ UnchangedOutput

\* line 681: y = append(y, "Foo")
TestFunkySlicingAppendCapacity_Append ==
    /\ pc = "fsa_append"
    /\ LET r == GoAppend(heap, loc.y, <<in.elem>>, StringT) IN
        /\ heap' = r.heap
        /\ loc' = [loc EXCEPT !.y = r.slice]
    /\ pc' = "fsa_assert"
    /\ UNCHANGED <<in, panicked, idx, reads, runtimeCheck>>
    /\ UnchangedOutput

\* lines 683-688: the assertions; the test returns
TestFunkySlicingAppendCapacity_Assert ==
    /\ pc = "fsa_assert"
    /\ Return

\* --- TestFullSliceExpression

\* line 695: s := []int{1, 2, 3, 4, 5}.  Drawn: the stop and the capacity index
\* of the full slice expression (s[:2:2] in the code) and the appended value (1000).
TestFullSliceExpression_Start ==
    /\ pkg = "composite_types" /\ pc = "idle"
    /\ \E hi \in 0..3, max \in 0..5, elem \in {1000, 3} :
        /\ hi <= max
        /\ in' = [test |-> "TestFullSliceExpression", hi |-> hi, max |-> max, elem |-> elem]
    /\ LET r == SliceLiteral(heap, <<1, 2, 3, 4, 5>>) IN
        /\ heap' = r.heap
        /\ loc' = [s |-> r.slice]
    /\ pc' = "fse_slice"
    /\ UNCHANGED <<panicked, idx, reads, runtimeCheck>>
    /\ UnchangedOutput

\* line 698: s2 := s[:2:2]
TestFullSliceExpression_Slice ==
    /\ pc = "fse_slice"
    /\ LET r == FullSliceExpr(heap, loc.s, 0, in.hi, in.max) IN
        /\ heap' = r.heap
        /\ loc' = [s |-> loc.s, s2 |-> r.slice]
    /\ pc' = "fse_append"
    /\ UNCHANGED <<in, panicked, idx, reads, runtimeCheck>>
    /\ UnchangedOutput

\* line 700: s2 = append(s2, 1000)
TestFullSliceExpression_Append ==
    /\ pc = "fse_append"
    /\ LET r == GoAppend(heap, loc.s2, <<in.elem>>, IntT) IN
        /\ heap' = r.heap
        /\ loc' = [loc EXCEPT !.s2 = r.slice]
    /\ pc' = "fse_assert"
    /\ UNCHANGED <<in, panicked, idx, reads, runtimeCheck>>
    /\ UnchangedOutput

\* lines 701-702: the assertions; the test returns
TestFullSliceExpression_Assert ==
    /\ pc = "fse_assert"
    /\ Return

\* --- TestCopySlice

\* line 712: s1 := []int{1, 2, 3}.  Drawn: the length s2 is made with (len(s1)
\* in the code) and the length and spare capacity b is made with (2 and 0).
TestCopySlice_Start ==
    /\ pkg = "composite_types" /\ pc = "idle"
    /\ \E l2 \in 0..4, bn \in 0..4, spare \in {0, 2} :
        in' = [test |-> "TestCopySlice", l2 |-> l2, bn |-> bn, spare |-> spare]
    /\ LET r == SliceLiteral(heap, <<1, 2, 3>>) IN
        /\ heap' = r.heap
        /\ loc' = [s1 |-> r.slice]
    /\ pc' = "cp_nil"
    /\ UNCHANGED <<panicked, idx, reads, runtimeCheck>>
    /\ UnchangedOutput

\* line 713: var s2 []int
TestCopySlice_DeclareS2 ==
    /\ pc = "cp_nil"
    /\ loc' = [s1 |-> loc.s1, s2 |-> NilSlice]
    /\ pc' = "cp_copy1"
    /\ UNCHANGED <<in, heap, panicked, idx, reads, runtimeCheck>>
    /\ UnchangedOutput

\* line 714: n := copy(s2, s1)
TestCopySlice_CopyIntoNil ==
    /\ pc = "cp_copy1"
    /\ LET r == GoCopy(heap, loc.s2, loc.s1) IN
        /\ heap' = r.heap
        /\ loc' = [s1 |-> loc.s1, s2 |-> loc.s2, n |-> r.n]
    /\ pc' = "cp_make"
    /\ UNCHANGED <<in, panicked, idx, reads, runtimeCheck>>
    /\ UnchangedOutput

\* line 723: s2 = make([]int, len(s1))
TestCopySlice_MakeS2 ==
    /\ pc = "cp_make"
    /\ LET r == Make(heap, in.l2, in.l2, IntT) IN
        /\ heap' = r.heap
        /\ loc' = [loc EXCEPT !.s2 = r.slice]
    /\ pc' = "cp_copy2"
    /\ UNCHANGED <<in, panicked, idx, reads, runtimeCheck>>
    /\ UnchangedOutput

\* line 724: n = copy(s2, s1)
TestCopySlice_CopyIntoMade ==
    /\ pc = "cp_copy2"
    /\ LET r == GoCopy(heap, loc.s2, loc.s1) IN
        /\ heap' = r.heap
        /\ loc' = [loc EXCEPT !.n = r.n]
    /\ pc' = "cp_app1"
    /\ UNCHANGED <<in, panicked, idx, reads, runtimeCheck>>
    /\ UnchangedOutput

\* line 730: s1 = append(s1, 100)
TestCopySlice_AppendS1 ==
    /\ pc = "cp_app1"
    /\ LET r == GoAppend(heap, loc.s1, <<100>>, IntT) IN
        /\ heap' = r.heap
        /\ loc' = [loc EXCEPT !.s1 = r.slice]
    /\ pc' = "cp_app2"
    /\ UNCHANGED <<in, panicked, idx, reads, runtimeCheck>>
    /\ UnchangedOutput

\* line 731: s2 = append(s2, 200)
TestCopySlice_AppendS2 ==
    /\ pc = "cp_app2"
    /\ LET r == GoAppend(heap, loc.s2, <<200>>, IntT) IN
        /\ heap' = r.heap
        /\ loc' = [loc EXCEPT !.s2 = r.slice]
    /\ pc' = "cp_a"
    /\ UNCHANGED <<in, panicked, idx, reads, runtimeCheck>>
    /\ UnchangedOutput

\* line 736: a := []int{1, 2, 3}
TestCopySlice_LiteralA ==
    /\ pc = "cp_a"
    /\ LET r == SliceLiteral(heap, <<1, 2, 3>>) IN
        /\ heap' = r.heap
        /\ loc' = [s1 |-> loc.s1, s2 |-> loc.s2, n |-> loc.n, a |-> r.slice]
    /\ pc' = "cp_b"
    /\ UNCHANGED <<in, panicked, idx, reads, runtimeCheck>>
    /\ UnchangedOutput

\* line 737: b := make([]int, 2)
TestCopySlice_MakeB ==
    /\ pc = "cp_b"
    /\ LET r == Make(heap, in.bn, in.bn + in.spare, IntT) IN
        /\ heap' = r.heap
        /\ loc' = [s1 |-> loc.s1, s2 |-> loc.s2, n |-> loc.n, a |-> loc.a, b |-> r.slice]
    /\ pc' = "cp_copy3"
    /\ UNCHANGED <<in, panicked, idx, reads, runtimeCheck>>
    /\ UnchangedOutput

\* line 738: _ = copy(b, a)
TestCopySlice_CopyIntoB ==
    /\ pc = "cp_copy3"
    /\ LET r == GoCopy(heap, loc.b, loc.a) IN
        /\ heap' = r.heap
    /\ pc' = "cp_assert"
    /\ UNCHANGED <<in, loc, panicked, idx, reads, runtimeCheck>>
    /\ UnchangedOutput

\* line 739: the assertion; the test returns
TestCopySlice_Assert ==
    /\ pc = "cp_assert"
    /\ Return

\* --- TestSliceClearing

\* line 593: s := make([]int, 100).  Drawn: the length (100 in the code), the
\* index written (99) and the value (10).
TestSliceClearing_Start ==
    /\ pkg = "composite_types" /\ pc = "idle"
    /\ \E n \in {1, 3, 100}, i \in {0, 2, 99}, v \in {10, -1} :
        /\ i < n
        /\ in' = [test |-> "TestSliceClearing", n |-> n, i |-> i, v |-> v]
        /\ LET r == Make(heap, n, n, IntT) IN
            /\ heap' = r.heap
            /\ loc' = [s |-> r.slice]
    /\ pc' = "clr_store"
    /\ UNCHANGED <<panicked, idx, reads, runtimeCheck>>
    /\ UnchangedOutput

\* line 594: s[99] = 10
TestSliceClearing_Store ==
    /\ pc = "clr_store"
    /\ IF InRange(loc.s, in.i)
       THEN /\ heap' = Store(heap, loc.s, in.i, in.v)
            /\ UNCHANGED panicked
       ELSE /\ panicked' = TRUE
            /\ UNCHANGED heap
    /\ pc' = "clr_clear"
    /\ UNCHANGED <<in, loc, idx, reads, runtimeCheck>>
    /\ UnchangedOutput

\* line 595: clear(s)
TestSliceClearing_Clear ==
    /\ pc = "clr_clear"
    /\ heap' = Clear(heap, loc.s, IntT)
    /\ pc' = "clr_assert"
    /\ UNCHANGED <<in, loc, panicked, idx, reads, runtimeCheck>>
    /\ UnchangedOutput

\* lines 596-597: the assertions; the test returns
TestSliceClearing_Assert ==
    /\ pc = "clr_assert"
    /\ Return

\* --- TestArrayFromSlice

\* line 757: s := []string{"foo", "bar", "baz"}.  Drawn: the stop index of
\* sub[:2] at line 763.
TestArrayFromSlice_Start ==
    /\ pkg = "composite_types" /\ pc = "idle"
    /\ \E hi \in 0..5 :
        in' = [test |-> "TestArrayFromSlice", hi |-> hi]
    /\ LET r == SliceLiteral(heap, <<"foo", "bar", "baz">>) IN
        /\ heap' = r.heap
        /\ loc' = [s |-> r.slice]
    /\ pc' = "afs_conv"
    /\ UNCHANGED <<panicked, idx, reads, runtimeCheck>>
    /\ UnchangedOutput

\* line 758: arr := [3]string(s)
TestArrayFromSlice_Convert ==
    /\ pc = "afs_conv"
    /\ LET r == ArrayFromSlice(heap, loc.s, 3) IN
        /\ heap' = r.heap
        /\ loc' = [s |-> loc.s, arr |-> r.arr]
    /\ pc' = "afs_sub"
    /\ UNCHANGED <<in, panicked, idx, reads, runtimeCheck>>
    /\ UnchangedOutput

\* line 762: sub := []int{1, 2, 3, 4, 5}
TestArrayFromSlice_LiteralSub ==
    /\ pc = "afs_sub"
    /\ LET r == SliceLiteral(heap, <<1, 2, 3, 4, 5>>) IN
        /\ heap' = r.heap
        /\ loc' = [s |-> loc.s, arr |-> loc.arr, sub |-> r.slice]
    /\ pc' = "afs_subarr"
    /\ UNCHANGED <<in, panicked, idx, reads, runtimeCheck>>
    /\ UnchangedOutput

\* line 763: subArr := [2]int(sub[:2]); the conversion panics when the slice is
\* shorter than the array
TestArrayFromSlice_ConvertSub ==
    /\ pc = "afs_subarr"
    /\ LET part == SliceExpr(heap, loc.sub, 0, in.hi) IN
        IF Convertible(part.slice, 2)
        THEN LET r == ArrayFromSlice(part.heap, part.slice, 2) IN
             /\ heap' = r.heap
             /\ loc' = [s |-> loc.s, arr |-> loc.arr, sub |-> loc.sub, subArr |-> r.arr]
             /\ UNCHANGED panicked
        ELSE /\ panicked' = TRUE
             /\ UNCHANGED <<heap, loc>>
    /\ pc' = "afs_assert"
    /\ UNCHANGED <<in, idx, reads, runtimeCheck>>
    /\ UnchangedOutput

\* lines 764-766: the assertions; the test returns
TestArrayFromSlice_Assert ==
    /\ pc = "afs_assert"
    /\ Return

\* --- TestSliceToPointerArray

\* line 785: s := []int{1, 2, 3}.  Drawn: the index and the value of the store
\* at line 788.
TestSliceToPointerArray_Start ==
    /\ pkg = "composite_types" /\ pc = "idle"
    /\ \E i \in 0..2, v \in {100, 2} :
        in' = [test |-> "TestSliceToPointerArray", i |-> i, v |-> v]
    /\ LET r == SliceLiteral(heap, <<1, 2, 3>>) IN
        /\ heap' = r.heap
        /\ loc' = [s |-> r.slice]
    /\ pc' = "spa_conv"
    /\ UNCHANGED <<panicked, idx, reads, runtimeCheck>>
    /\ UnchangedOutput

\* line 786: a := (*[3]int)(s)
TestSliceToPointerArray_Convert ==
    /\ pc = "spa_conv"
    /\ LET r == ArrayPtrFromSlice(heap, loc.s, 3) IN
        /\ heap' = r.heap
        /\ loc' = [s |-> loc.s, a |-> r.arr]
    /\ pc' = "spa_store"
    /\ UNCHANGED <<in, panicked, idx, reads, runtimeCheck>>
    /\ UnchangedOutput

\* line 788: s[0] = 100
TestSliceToPointerArray_Store ==
    /\ pc = "spa_store"
    /\ heap' = Store(heap, loc.s, in.i, in.v)
    /\ pc' = "spa_assert"
    /\ UNCHANGED <<in, loc, panicked, idx, reads, runtimeCheck>>
    /\ UnchangedOutput

\* lines 789-790: the assertions; the test returns
TestSliceToPointerArray_Assert ==
    /\ pc = "spa_assert"
    /\ Return

\* --- TestLiteralZeroValues

\* lines 19-22: the test reads zeroInteger, zeroFloat, zeroBool, zeroString
TestLiteralZeroValues_Start ==
    /\ pkg = "predeclared_types" /\ pc = "idle"
    /\ in' = [test |-> "TestLiteralZeroValues"]
    /\ loc' = [zeroInteger |-> globals.zeroInteger,
               zeroFloat |-> globals.zeroFloat,
               zeroBool |-> globals.zeroBool,
               zeroString |-> globals.zeroString]
    /\ pc' = "lzv_assert"
    /\ UNCHANGED <<heap, panicked, idx, reads, runtimeCheck>>
    /\ UnchangedOutput

\* line 23: the test returns
TestLiteralZeroValues_Assert ==
    /\ pc = "lzv_assert"
    /\ Return

\* --- TestSimpleArray

\* lines 276-279: len(simpleArray) and the reads of simpleArray[0], [1], [2]
TestSimpleArray_Start ==
    /\ pkg = "composite_types" /\ pc = "idle"
    /\ in' = [test |-> "TestSimpleArray"]
    /\ loc' = [len |-> Len(globals.simpleArray)]
    /\ reads' = <<globals.simpleArray[1], globals.simpleArray[2], globals.simpleArray[3]>>
    /\ pc' = "sa_assert"
    /\ UNCHANGED <<heap, panicked, idx, runtimeCheck>>
    /\ UnchangedOutput

\* line 280: the test returns
TestSimpleArray_Assert ==
    /\ pc = "sa_assert"
    /\ Return

\* --- TestDefaultNilSlice

\* line 449: the test reads multiDimensionSlice
TestDefaultNilSlice_Start ==
    /\ pkg = "composite_types" /\ pc = "idle"
    /\ in' = [test |-> "TestDefaultNilSlice"]
    /\ loc' = [s |-> globals.multiDimensionSlice]
    /\ pc' = "dns_assert"
    /\ UNCHANGED <<heap, panicked, idx, reads, runtimeCheck>>
    /\ UnchangedOutput

\* line 450: the test returns
TestDefaultNilSlice_Assert ==
    /\ pc = "dns_assert"
    /\ Return

\* --- TestMakingSlice

\* line 555: s := make([]int, 100, 200).  Drawn: the length and the capacity
\* beyond it.
TestMakingSlice_Start ==
    /\ pkg = "composite_types" /\ pc = "idle"
    /\ \E n \in {0, 1, 3, 100}, spare \in {0, 2, 100} :
        /\ in' = [test |-> "TestMakingSlice", n |-> n, c |-> n + spare]
        /\ LET r == Make(heap, n, n + spare, IntT) IN
            /\ heap' = r.heap
            /\ loc' = [s |-> r.slice]
    /\ pc' = "mks_assert"
    /\ UNCHANGED <<panicked, idx, reads, runtimeCheck>>
    /\ UnchangedOutput

\* lines 556-561: the assertions; the test returns
TestMakingSlice_Assert ==
    /\ pc = "mks_assert"
    /\ Return

\* --- TestSliceSlicing

\* line 630: s := []string{"foo", "bar", "baz"}.  Drawn: the start of s[1:]
\* (line 633), the stop of s[:2] (line 635) and both indexes of s1[1:4] (line 645).
TestSliceSlicing_Start ==
    /\ pkg = "composite_types" /\ pc = "idle"
    /\ \E lo \in 0..3, hi \in 0..3, a \in 0..5, b \in 0..5 :
        /\ a <= b
        /\ in' = [test |-> "TestSliceSlicing", lo |-> lo, hi |-> hi, a |-> a, b |-> b]
    /\ LET r == SliceLiteral(heap, <<"foo", "bar", "baz">>) IN
        /\ heap' = r.heap
        /\ loc' = [s |-> r.slice]
    /\ pc' = "ssl_from"
    /\ UNCHANGED <<panicked, idx, reads, runtimeCheck>>
    /\ UnchangedOutput

\* line 633: s[1:]; the omitted stop is len(s)
TestSliceSlicing_FromStart ==
    /\ pc = "ssl_from"
    /\ LET r == SliceExpr(heap, loc.s, in.lo, loc.s.len) IN
        /\ heap' = r.heap
        /\ loc' = [s |-> loc.s, from |-> r.slice]
    /\ pc' = "ssl_upto"
    /\ UNCHANGED <<in, panicked, idx, reads, runtimeCheck>>
    /\ UnchangedOutput

\* line 635: s[:2]; the omitted start is 0
TestSliceSlicing_UpToStop ==
    /\ pc = "ssl_upto"
    /\ LET r == SliceExpr(heap, loc.s, 0, in.hi) IN
        /\ heap' = r.heap
        /\ loc' = [s |-> loc.s, from |-> loc.from, upto |-> r.slice]
    /\ pc' = "ssl_make"
    /\ UNCHANGED <<in, panicked, idx, reads, runtimeCheck>>
    /\ UnchangedOutput

\* line 640: s1 := make([]int, 0, 5)
TestSliceSlicing_Make ==
    /\ pc = "ssl_make"
    /\ LET r == Make(heap, 0, 5, IntT) IN
        /\ heap' = r.heap
        /\ loc' = [s |-> loc.s, from |-> loc.from, upto |-> loc.upto, s1 |-> r.slice]
    /\ pc' = "ssl_append"
    /\ UNCHANGED <<in, panicked, idx, reads, runtimeCheck>>
    /\ UnchangedOutput

\* line 641: s1 = append(s1, 1, 2, 3, 4, 5)
TestSliceSlicing_Append ==
    /\ pc = "ssl_append"
    /\ LET r == GoAppend(heap, loc.s1, <<1, 2, 3, 4, 5>>, IntT) IN
        /\ heap' = r.heap
        /\ loc' = [s |-> loc.s, from |-> loc.from, upto |-> loc.upto, s1 |-> r.slice]
    /\ pc' = "ssl_expected"
    /\ UNCHANGED <<in, panicked, idx, reads, runtimeCheck>>
    /\ UnchangedOutput

\* line 645: expected := s1[1:4]
TestSliceSlicing_Expected ==
    /\ pc = "ssl_expected"
    /\ LET r == SliceExpr(heap, loc.s1, in.a, in.b) IN
        /\ heap' = r.heap
        /\ loc' = [s |-> loc.s, from |-> loc.from, upto |-> loc.upto, s1 |-> loc.s1,
                   expected |-> r.slice]
    /\ pc' = "ssl_assert"
    /\ UNCHANGED <<in, panicked, idx, reads, runtimeCheck>>
    /\ UnchangedOutput

\* line 646: the assertion; the test returns
TestSliceSlicing_Assert ==
    /\ pc = "ssl_assert"
    /\ Return

\* --- TestExtractingValueFromString

\* line 802: s := "hello world"
TestExtractingValueFromString_Start ==
    /\ pkg = "composite_types" /\ pc = "idle"
    /\ in' = [test |-> "TestExtractingValueFromString"]
    /\ loc' = [str |-> StringLit(Hello \o <<32>> \o World)]
    /\ pc' = "evs_index"
    /\ UNCHANGED <<heap, panicked, idx, reads, runtimeCheck>>
    /\ UnchangedOutput

\* lines 803-804: one := s[0]; last := s[len(s)-1]
TestExtractingValueFromString_Index ==
    /\ pc = "evs_index"
    /\ loc' = [str |-> loc.str,
               one |-> StringIndex(loc.str, 0),
               last |-> StringIndex(loc.str, Len(loc.str) - 1)]
    /\ pc' = "evs_assert"
    /\ UNCHANGED <<in, heap, panicked, idx, reads, runtimeCheck>>
    /\ UnchangedOutput

\* lines 805-806: the assertions; the test returns
TestExtractingValueFromString_Assert ==
    /\ pc = "evs_assert"
    /\ Return

\* --- TestStringIndexingMultiByte

\* line 823: s := "hello <cp> world".  Drawn: the code point in the middle.
TestStringIndexingMultiByte_Start ==
    /\ pkg = "composite_types" /\ pc = "idle"
    /\ \E cp \in CodePoints :
        /\ in' = [test |-> "TestStringIndexingMultiByte", cp |-> cp]
        /\ loc' = [str |-> StringLit(Hello \o <<32, cp, 32>> \o World)]
    /\ pc' = "smb_start"
    /\ UNCHANGED <<heap, panicked, idx, reads, runtimeCheck>>
    /\ UnchangedOutput

\* line 830: start := s[:5]
TestStringIndexingMultiByte_SliceStart ==
    /\ pc = "smb_start"
    /\ loc' = [str |-> loc.str, start |-> StringSlice(loc.str, 0, 5)]
    /\ pc' = "smb_end"
    /\ UNCHANGED <<in, heap, panicked, idx, reads, runtimeCheck>>
    /\ UnchangedOutput

\* line 834: end := s[len(s)-5:]
TestStringIndexingMultiByte_SliceEnd ==
    /\ pc = "smb_end"
    /\ loc' = [str |-> loc.str, start |-> loc.start,
               end |-> StringSlice(loc.str, Len(loc.str) - 5, Len(loc.str))]
    /\ pc' = "smb_cp"
    /\ UNCHANGED <<in, heap, panicked, idx, reads, runtimeCheck>>
    /\ UnchangedOutput

\* line 839: codePoint := s[6:9]
TestStringIndexingMultiByte_SliceCodePoint ==
    /\ pc = "smb_cp"
    /\ loc' = [str |-> loc.str, start |-> loc.start, end |-> loc.end,
               codePoint |-> StringSlice(loc.str, 6, 9)]
    /\ pc' = "smb_assert"
    /\ UNCHANGED <<in, heap, panicked, idx, reads, runtimeCheck>>
    /\ UnchangedOutput

\* line 840: the assertion; the test returns
TestStringIndexingMultiByte_Assert ==
    /\ pc = "smb_assert"
    /\ Return

\* --- TestStringSliceConv

\* line 871: s := "Hi <cp>".  Drawn: the code point at the end.
TestStringSliceConv_Start ==
    /\ pkg = "composite_types" /\ pc = "idle"
    /\ \E cp \in CodePoints :
        /\ in' = [test |-> "TestStringSliceConv", cp |-> cp]
        /\ loc' = [str |-> StringLit(Hi \o <<32, cp>>)]
    /\ pc' = "ssc_bytes"
    /\ UNCHANGED <<heap, panicked, idx, reads, runtimeCheck>>
    /\ UnchangedOutput

\* line 872: b := []byte(s): a new slice holding the bytes of s
TestStringSliceConv_Bytes ==
    /\ pc = "ssc_bytes"
    /\ LET r == SliceLiteral(heap, loc.str) IN
        /\ heap' = r.heap
        /\ loc' = [str |-> loc.str, b |-> r.slice]
    /\ pc' = "ssc_runes"
    /\ UNCHANGED <<in, panicked, idx, reads, runtimeCheck>>
    /\ UnchangedOutput

\* line 873: r := []rune(s): a new slice holding the code points of s
TestStringSliceConv_Runes ==
    /\ pc = "ssc_runes"
    /\ LET r == SliceLiteral(heap, DecodeRunes(loc.str)) IN
        /\ heap' = r.heap
        /\ loc' = [str |-> loc.str, b |-> loc.b, r |-> r.slice]
    /\ pc' = "ssc_assert"
    /\ UNCHANGED <<in, panicked, idx, reads, runtimeCheck>>
    /\ UnchangedOutput

\* lines 876-877: the assertions; the test returns
TestStringSliceConv_Assert ==
    /\ pc = "ssc_assert"
    /\ Return

\* --- TestStringComparison (internal/predeclared_types)

\* the shorter of the two strings, filled up with null bytes to the length of
\* the other
PadTo(a, n) == a \o [j \in 1..(n - Len(a)) |-> 0]

RECURSIVE CmpBytes(_, _, _)
\* the comparison of a and b from byte i on, over their common length l; the
\* lengths decide when no byte differs
CmpBytes(a, b, i) ==
    LET l == IF Len(a) < Len(b) THEN Len(a) ELSE Len(b) IN
    IF i > l
    THEN IF Len(a) < Len(b) THEN -1 ELSE IF Len(a) > Len(b) THEN 1 ELSE 0
    ELSE IF a[i] < b[i] THEN -1
    ELSE IF a[i] > b[i] THEN 1
    ELSE CmpBytes(a, b, i + 1)

\* a comparison that fills the shorter string up with null bytes first
CmpstringPadded(a, b) ==
    LET n == IF Len(a) < Len(b) THEN Len(b) ELSE Len(a) IN
    CmpBytes(PadTo(a, n), PadTo(b, n), 1)

\* the three-way comparison behind <, > and == on strings: -1, 0 or 1
Cmpstring(a, b) == CmpBytes(a, b, 1)

\* the strings compared: those of the code (foo, fo, a, b, z, y, AAAAA, AA)
\* and aa, a followed by a null byte, and the empty string
ComparedStrings ==
    {StringLit(<<102, 111, 111>>), StringLit(<<102, 111>>),
     StringLit(<<97>>), StringLit(<<98>>), StringLit(<<122>>), StringLit(<<121>>),
     StringLit(<<65, 65, 65, 65, 65>>), StringLit(<<65, 65>>),
     StringLit(<<97, 97>>), StringLit(<<97, 0>>), StringLit(<<>>)}

\* lines 160-167: the operands of a comparison.  Drawn: both strings.
TestStringComparison_Start ==
    /\ pkg = "predeclared_types" /\ pc = "idle"
    /\ \E x \in ComparedStrings, y \in ComparedStrings :
        in' = [test |-> "TestStringComparison", x |-> x, y |-> y]
    /\ pc' = "cmp_compare"
    /\ UNCHANGED <<heap, loc, panicked, idx, reads, runtimeCheck>>
    /\ UnchangedOutput

\* lines 160-167: x == y, x != y, x < y, x > y
TestStringComparison_Compare ==
    /\ pc = "cmp_compare"
    /\ LET c == Cmpstring(in.x, in.y) IN
        loc' = [eq |-> c = 0, ne |-> c # 0, lt |-> c < 0, gt |-> c > 0]
    /\ pc' = "cmp_assert"
    /\ UNCHANGED <<in, heap, panicked, idx, reads, runtimeCheck>>
    /\ UnchangedOutput

\* line 172: the test returns
TestStringComparison_Assert ==
    /\ pc = "cmp_assert"
    /\ Return

\* --- TestCompilerCantCatchOversizingOnCast

\* line 774: s := []int{1, 2, 3, 4, 5}
TestCompilerCantCatchOversizingOnCast_Start ==
    /\ pkg = "composite_types" /\ pc = "idle"
    /\ in' = [test |-> "TestCompilerCantCatchOversizingOnCast"]
    /\ LET r == SliceLiteral(heap, <<1, 2, 3, 4, 5>>) IN
        /\ heap' = r.heap
        /\ loc' = [s |-> r.slice]
    /\ pc' = "ovs_assert"
    /\ UNCHANGED <<panicked, idx, reads, runtimeCheck>>
    /\ UnchangedOutput

\* line 775: the assertion; the conversion of line 778 is a comment, not run;
\* the test returns
TestCompilerCantCatchOversizingOnCast_Assert ==
    /\ pc = "ovs_assert"
    /\ Return

\* --- TestInitializedArray

\* lines 286-287: len(initializedArray) and cap(initializedArray)
TestInitializedArray_Start ==
    /\ pkg = "composite_types" /\ pc = "idle"
    /\ in' = [test |-> "TestInitializedArray"]
    /\ loc' = [len |-> ArrayLen(globals.initializedArray),
               cap |-> ArrayCap(globals.initializedArray)]
    /\ pc' = "ia_assert"
    /\ UNCHANGED <<heap, panicked, idx, reads, runtimeCheck>>
    /\ UnchangedOutput

\* line 288: the test returns
TestInitializedArray_Assert ==
    /\ pc = "ia_assert"
    /\ Return

\* --- the tests that read package-level variables set from a literal

\* a test that fills index 1 of the package-level array before reading it
TestSparseArray_StartWrites ==
    /\ pkg = "composite_types" /\ pc = "idle"
    /\ in' = [test |-> "TestSparseArray"]
    /\ globals' = [globals EXCEPT !.sparseArray[2] = 7]
    /\ reads' = <<globals.sparseArray[1], globals.sparseArray[3], 7,
                  globals.sparseArray[4], globals.sparseArray[5]>>
    /\ pc' = "sparse_assert"
    /\ UNCHANGED <<heap, loc, panicked, idx, runtimeCheck>>
    /\ UNCHANGED <<pkg, buffer, stdout, call, ncalls, num>>

\* lines 296-301: the reads of sparseArray[0], [2], [1], [3], [4]
TestSparseArray_Start ==
    /\ pkg = "composite_types" /\ pc = "idle"
    /\ in' = [test |-> "TestSparseArray"]
    /\ reads' = <<globals.sparseArray[1], globals.sparseArray[3], globals.sparseArray[2],
                  globals.sparseArray[4], globals.sparseArray[5]>>
    /\ pc' = "sparse_assert"
    /\ UNCHANGED <<heap, loc, panicked, idx, runtimeCheck>>
    /\ UnchangedOutput

\* line 302: the test returns
TestSparseArray_Assert ==
    /\ pc = "sparse_assert"
    /\ Return

\* lines 422-423: len(mySlice), cap(mySlice); lines 425-426: arrInit :=
\* [1]int32{1}, an array of its own, and sliceInit := []int32{1}
TestBasicSlice_Start ==
    /\ pkg = "composite_types" /\ pc = "idle"
    /\ in' = [test |-> "TestBasicSlice"]
    /\ reads' = <<globals.mySlice.len, globals.mySlice.cap>>
    /\ LET a == SliceLiteral(heap, <<1>>)
           s == SliceLiteral(a.heap, <<1>>)
       IN /\ heap' = s.heap
          /\ loc' = [arrInit |-> a.slice, sliceInit |-> s.slice]
    /\ pc' = "bs_assert"
    /\ UNCHANGED <<panicked, idx, runtimeCheck>>
    /\ UnchangedOutput

\* line 428: the test returns
TestBasicSlice_Assert ==
    /\ pc = "bs_assert"
    /\ Return

\* lines 435-439: the reads of myPopulatedSlice[0..4]
TestPopulatedSlice_Start ==
    /\ pkg = "composite_types" /\ pc = "idle"
    /\ in' = [test |-> "TestPopulatedSlice"]
    /\ reads' = [j \in 1..5 |-> globals.myPopulatedSlice.elems[j]]
    /\ pc' = "ps_assert"
    /\ UNCHANGED <<heap, loc, panicked, idx, runtimeCheck>>
    /\ UnchangedOutput

\* line 440: the test returns
TestPopulatedSlice_Assert ==
    /\ pc = "ps_assert"
    /\ Return

\* line 460: b := uncomparable == nil
TestCannotCompareSlice_Start ==
    /\ pkg = "composite_types" /\ pc = "idle"
    /\ in' = [test |-> "TestCannotCompareSlice"]
    /\ reads' = <<globals.uncomparable.nil>>
    /\ pc' = "ccs_assert"
    /\ UNCHANGED <<heap, loc, panicked, idx, runtimeCheck>>
    /\ UnchangedOutput

\* lines 461-462: the assertion; the test returns
TestCannotCompareSlice_Assert ==
    /\ pc = "ccs_assert"
    /\ Return

\* line 468: result := slices.Equal(uncomparable, otherSlice)
TestCompareUsingSlicesPackage_Start ==
    /\ pkg = "composite_types" /\ pc = "idle"
    /\ in' = [test |-> "TestCompareUsingSlicesPackage"]
    /\ reads' = <<SlicesEqual(globals.uncomparable, globals.otherSlice)>>
    /\ pc' = "cus_assert"
    /\ UNCHANGED <<heap, loc, panicked, idx, runtimeCheck>>
    /\ UnchangedOutput

\* lines 469-470: the assertion; the test returns
TestCompareUsingSlicesPackage_Assert ==
    /\ pc = "cus_assert"
    /\ Return

\* line 476: len(sizedSlice)
TestLenOfSlice_Start ==
    /\ pkg = "composite_types" /\ pc = "idle"
    /\ in' = [test |-> "TestLenOfSlice"]
    /\ reads' = <<globals.sizedSlice.len>>
    /\ pc' = "los_assert"
    /\ UNCHANGED <<heap, loc, panicked, idx, runtimeCheck>>
    /\ UnchangedOutput

\* line 477: the test returns
TestLenOfSlice_Assert ==
    /\ pc = "los_assert"
    /\ Return

\* ------------------------------------------------------------------ the processes

\* the package-level variables the tests read, as the program starts: those
\* declared without a value hold the zero value of their type
PackageVars(p) ==
    CASE p = "predeclared_types" ->
            [zeroInteger |-> ZeroValue("int"),
             zeroString |-> ZeroValue("string"),
             zeroBool |-> ZeroValue("bool"),
             zeroFloat |-> ZeroValue("float64"),
             zeroRune |-> ZeroValue("rune")]
      [] p = "composite_types" ->
            [simpleArray |-> ZeroArray(3, "int"),
             initializedArray |-> <<"A", "B", "C", "D", "E">>,
             sparseArray |-> KeyedArray(5, (0 :> 100) @@ (2 :> 200), "int"),
             mySlice |-> PackageSlice(<<>>),
             myPopulatedSlice |->
                PackageSlice(KeyedArray(5, (0 :> 10) @@ (1 :> 20) @@ (2 :> 30) @@ (4 :> 50), "int")),
             multiDimensionSlice |-> ZeroValue("slice"),
             uncomparable |-> PackageSlice(<<1, 2, 3>>),
             otherSlice |-> PackageSlice(<<1, 2, 3>>),
             sizedSlice |-> PackageSlice(<<"foo", "bar">>)]
      [] OTHER -> <<>>

Packages == {"common", "predeclared_types", "composite_types"}

Init ==
    /\ pkg \in Packages
    /\ pc = "idle"
    /\ in = NoInput
    /\ buffer = <<>>
    /\ stdout = <<>>
    /\ call = NoCall
    /\ ncalls = 0
    /\ num = NoNum
    /\ panicked = FALSE
    /\ idx = 0
    /\ reads = <<>>
    /\ runtimeCheck = <<1, 2, 3>>
    /\ heap = <<>>
    /\ globals = PackageVars(pkg)
    /\ loc = NoLoc

Next ==
    \/ TestAnnouncesCorrectly_Start
    \/ TestAnnouncesCorrectly_Call
    \/ TestAnnouncesCorrectly_Assert
    \/ CallAnnounceChapter
    \/ InitPredeclaredTypes
    \/ exerciseThree_Declare
    \/ exerciseThree_IncB
    \/ exerciseThree_IncSmallI
    \/ exerciseThree_IncBigI
    \/ exerciseThree_Print
    \/ TestExerciseThree_Assert
    \/ TestGoingOutOfBoundsAtRuntime_Start
    \/ TestGoingOutOfBoundsAtRuntime_Loop
    \/ TestGoingOutOfBoundsAtRuntime_Assert
    \/ TestSlicingSliceMemory_Start
    \/ TestSlicingSliceMemory_Slice
    \/ TestSlicingSliceMemory_Store
    \/ TestSlicingSliceMemory_Assert
    \/ TestCapacityAllocation_Start
    \/ TestCapacityAllocation_AppendEmpty
    \/ TestCapacityAllocation_LiteralStart
    \/ TestCapacityAllocation_Append2
    \/ TestCapacityAllocation_Append3
    \/ TestCapacityAllocation_Assert
    \/ TestSliceCommonMistakeAppend_Start
    \/ TestSliceCommonMistakeAppend_Append1
    \/ TestSliceCommonMistakeAppend_Append2
    \/ TestSliceCommonMistakeAppend_Assert
    \/ TestSlicesAppend_Start
    \/ TestSlicesAppend_Append1
    \/ TestSlicesAppend_Append2
    \/ TestSlicesAppend_LiteralS2
    \/ TestSlicesAppend_Discard
    \/ TestSlicesAppend_Assert
    \/ TestFunkySlicingAppendCapacity_Start
    \/ TestFunkySlicingAppendCapacity_Slice
    \/ TestFunkySlicingAppendCapacity_Append
    \/ TestFunkySlicingAppendCapacity_Assert
    \/ TestFullSliceExpression_Start
    \/ TestFullSliceExpression_Slice
    \/ TestFullSliceExpression_Append
    \/ TestFullSliceExpression_Assert
    \/ TestCopySlice_Start
    \/ TestCopySlice_DeclareS2
    \/ TestCopySlice_CopyIntoNil
    \/ TestCopySlice_MakeS2
    \/ TestCopySlice_CopyIntoMade
    \/ TestCopySlice_AppendS1
    \/ TestCopySlice_AppendS2
    \/ TestCopySlice_LiteralA
    \/ TestCopySlice_MakeB
    \/ TestCopySlice_CopyIntoB
    \/ TestCopySlice_Assert
    \/ TestSliceClearing_Start
    \/ TestSliceClearing_Store
    \/ TestSliceClearing_Clear
    \/ TestSliceClearing_Assert
    \/ TestArrayFromSlice_Start
    \/ TestArrayFromSlice_Convert
    \/ TestArrayFromSlice_LiteralSub
    \/ TestArrayFromSlice_ConvertSub
    \/ TestArrayFromSlice_Assert
    \/ TestSliceToPointerArray_Start
    \/ TestSliceToPointerArray_Convert
    \/ TestSliceToPointerArray_Store
    \/ TestSliceToPointerArray_Assert
    \/ TestLiteralZeroValues_Start
    \/ TestLiteralZeroValues_Assert
    \/ TestSimpleArray_Start
    \/ TestSimpleArray_Assert
    \/ TestDefaultNilSlice_Start
    \/ TestDefaultNilSlice_Assert
    \/ TestMakingSlice_Start
    \/ TestMakingSlice_Assert
    \/ TestSliceSlicing_Start
    \/ TestSliceSlicing_FromStart
    \/ TestSliceSlicing_UpToStop
    \/ TestSliceSlicing_Make
    \/ TestSliceSlicing_Append
    \/ TestSliceSlicing_Expected
    \/ TestSliceSlicing_Assert
    \/ TestExtractingValueFromString_Start
    \/ TestExtractingValueFromString_Index
    \/ TestExtractingValueFromString_Assert
    \/ TestStringIndexingMultiByte_Start
    \/ TestStringIndexingMultiByte_SliceStart
    \/ TestStringIndexingMultiByte_SliceEnd
    \/ TestStringIndexingMultiByte_SliceCodePoint
    \/ TestStringIndexingMultiByte_Assert
    \/ TestStringSliceConv_Start
    \/ TestStringSliceConv_Bytes
    \/ TestStringSliceConv_Runes
    \/ TestStringSliceConv_Assert
    \/ TestStringComparison_Start
    \/ TestStringComparison_Compare
    \/ TestStringComparison_Assert
    \/ TestCompilerCantCatchOversizingOnCast_Start
    \/ TestCompilerCantCatchOversizingOnCast_Assert
    \/ TestInitializedArray_Start
    \/ TestInitializedArray_Assert
    \/ TestSparseArray_Start
    \/ TestSparseArray_Assert
    \/ TestBasicSlice_Start
    \/ TestBasicSlice_Assert
    \/ TestPopulatedSlice_Start
    \/ TestPopulatedSlice_Assert
    \/ TestCannotCompareSlice_Start
    \/ TestCannotCompareSlice_Assert
    \/ TestCompareUsingSlicesPackage_Start
    \/ TestCompareUsingSlicesPackage_Assert
    \/ TestLenOfSlice_Start
    \/ TestLenOfSlice_Assert

Spec == Init /\ [][Next]_vars

\* ------------------------------------------------------------------ properties

\* --- helpers of the properties: text read back, independently of the formatting

DigitValue(c) == CHOOSE k \in 0..9 : Digit[k + 1] = c
IsDigit(c) == \E k \in 0..9 : Digit[k + 1] = c

RECURSIVE ParseNat(_)
\* the number a sequence of digits denotes
ParseNat(d) ==
    IF d = <<>> THEN 0
    ELSE 10 * ParseNat(SubSeq(d, 1, Len(d) - 1)) + DigitValue(d[Len(d)])

\* d is the canonical decimal rendering of some integer: an optional minus sign,
\* then digits with no leading zero; no "-0"
IsDecimal(d) ==
    LET body == IF d # <<>> /\ Head(d) = "-" THEN Tail(d) ELSE d IN
    /\ body # <<>>
    /\ \A k \in 1..Len(body) : IsDigit(body[k])
    /\ Len(body) > 1 => body[1] # "0"
    /\ (d # <<>> /\ Head(d) = "-") => body # <<"0">>

ParseDecimal(d) == IF Head(d) = "-" THEN 0 - ParseNat(Tail(d)) ELSE ParseNat(d)

ChapterWord == <<"C", "h", "a", "p", "t", "e", "r", " ">>

\* t is "Chapter <chapter>: <name>" and one newline, chapter in decimal
IsChapterLine(t, chapter, name) ==
    \E dl \in 1..Len(t) :
        /\ Len(t) = Len(ChapterWord) + dl + 2 + Len(name) + 1
        /\ LET d == SubSeq(t, Len(ChapterWord) + 1, Len(ChapterWord) + dl) IN
            /\ IsDecimal(d)
            /\ ParseDecimal(d) = chapter
            /\ t = ChapterWord \o d \o <<":", " ">> \o name \o <<"\n">>

\* new is old followed by exactly one chapter line
WroteChapterLine(old, new, chapter, name) ==
    /\ Len(new) > Len(old)
    /\ SubSeq(new, 1, Len(old)) = old
    /\ IsChapterLine(SubSeq(new, Len(old) + 1, Len(new)), chapter, name)

\* C1: every call of AnnounceChapter with a non-nil writer appends to that
\* writer exactly "Chapter <chapter>: <name>" and one newline, the chapter in
\* decimal, and nothing else.
C1_WritesChapterLine ==
    [][(ncalls' # ncalls /\ call'.w # "nil")
        => WroteChapterLine(buffer, buffer', call'.chapter, call'.name)]_vars

\* C1 witness: TestAnnouncesCorrectly called with 1 and "foo", and the buffer
\* holds "Chapter 1: foo\n".
C1_Witness ==
    /\ pc = "tac_assert"
    /\ call = [w |-> "buffer", chapter |-> 1, name |-> Foo]
    /\ buffer = <<"C", "h", "a", "p", "t", "e", "r", " ", "1", ":", " ",
                  "f", "o", "o", "\n">>

Chapter1Line ==
    <<"C", "h", "a", "p", "t", "e", "r", " ", "1", ":", " ">> \o chapterName \o <<"\n">>

\* C2: a call of AnnounceChapter changes standard output if and only if its
\* writer is nil; with nil the line is appended to standard output and the
\* buffer is untouched, with a writer standard output is untouched; and
\* InitPredeclaredTypes appends "Chapter 1: Predeclared Types & Declarations\n"
\* to standard output.
C2_StdoutIffNil ==
    [][(ncalls' # ncalls) =>
        /\ (stdout' # stdout) <=> (call'.w = "nil")
        /\ call'.w = "nil" =>
            /\ WroteChapterLine(stdout, stdout', call'.chapter, call'.name)
            /\ buffer' = buffer
        /\ call'.w # "nil" => stdout' = stdout
        /\ pkg = "predeclared_types" =>
            /\ call'.w = "nil"
            /\ stdout' = stdout \o Chapter1Line]_vars

\* C2 witness: InitPredeclaredTypes ran once and standard output holds its line.
C2_Witness ==
    /\ pkg = "predeclared_types"
    /\ ncalls = 1
    /\ call.w = "nil"
    /\ stdout = Chapter1Line
    /\ buffer = <<>>

InExerciseThree == in.test = "TestExerciseThree"

\* the unsigned value of a bit sequence short enough to compute with
RECURSIVE SmallValue(_)
SmallValue(x) == IF x = <<>> THEN 0 ELSE Head(x) + 2 * SmallValue(Tail(x))

Text255 == <<"2", "5", "5">>
TextMaxUint64 ==
    <<"1", "8", "4", "4", "6", "7", "4", "4", "0", "7",
      "3", "7", "0", "9", "5", "5", "1", "6", "1", "5">>
TextMaxInt32 == <<"2", "1", "4", "7", "4", "8", "3", "6", "4", "7">>
TextMinInt32 == <<"-", "2", "1", "4", "7", "4", "8", "3", "6", "4", "8">>

\* C3: after b++ a byte declared as 255 is 0, and every byte is its old value
\* plus one modulo 2^8; after bigI++ a uint64 declared as 18446744073709551615
\* is 0; no panic is raised.
C3_UnsignedIncrementWraps ==
    InExerciseThree =>
        /\ ~panicked
        /\ pc \in {"ex3_smallI", "ex3_bigI", "ex3_print", "ex3_assert"} =>
            /\ SmallValue(num.b) = (SmallValue(in.b) + 1) % (2 ^ 8)
            /\ FormatUint(in.b) = Text255 => FormatUint(num.b) = <<"0">>
        /\ pc \in {"ex3_print", "ex3_assert"} =>
            /\ Len(num.bigI) = 64
            /\ FormatUint(in.bigI) = TextMaxUint64 => FormatUint(num.bigI) = <<"0">>

\* C3 witness: both unsigned variables were declared at their maximum and
\* incremented, and hold 0.
C3_Witness ==
    /\ pc = "ex3_print"
    /\ FormatUint(in.b) = Text255
    /\ FormatUint(in.bigI) = TextMaxUint64
    /\ num.b = Zeros(8)
    /\ num.bigI = Zeros(64)

\* C4: after smallI++ an int32 declared as 2147483647 is -2147483648, with no
\* panic, and with all three variables declared at their maximum exerciseThree
\* prints "0 -2147483648 0" and a newline.
C4_SignedIncrementWraps ==
    InExerciseThree =>
        /\ ~panicked
        /\ (pc \in {"ex3_bigI", "ex3_print", "ex3_assert"}
            /\ FormatInt(in.smallI) = TextMaxInt32) =>
            /\ FormatInt(num.smallI) = TextMinInt32
            /\ num.smallI = MinSigned(32)
        /\ (pc = "ex3_assert"
            /\ FormatUint(in.b) = Text255
            /\ FormatInt(in.smallI) = TextMaxInt32
            /\ FormatUint(in.bigI) = TextMaxUint64) =>
            buffer = <<"0", " ">> \o TextMinInt32 \o <<" ", "0", "\n">>

\* C4 witness: exerciseThree ran on the three maxima and printed the line.
C4_Witness ==
    /\ pc = "ex3_assert"
    /\ in.smallI = MaxSigned(32)
    /\ in.b = AllOnes(8)
    /\ in.bigI = AllOnes(64)
    /\ buffer = <<"0", " ", "-", "2", "1", "4", "7", "4", "8", "3", "6", "4", "8",
                  " ", "0", "\n">>

InOutOfBounds == in.test = "TestGoingOutOfBoundsAtRuntime"

\* C5: a read of the three-element array at an index >= 3 panics, it is the
\* last read of the loop, and every read below 3 does not panic; the loop
\* started at 3 panics at its first read and never reads index 4; the array
\* keeps its contents.
C5_OutOfBoundsReadPanics ==
    /\ runtimeCheck = <<1, 2, 3>>
    /\ InOutOfBounds =>
        /\ \A k \in 1..Len(reads) :
            /\ reads[k] >= 3 => (panicked /\ k = Len(reads))
            /\ reads[k] < 3 => (k < Len(reads) \/ ~panicked)
        /\ panicked => (reads # <<>> /\ reads[Len(reads)] = idx /\ idx >= 3)
        /\ pc = "oob_recovered" => panicked
        /\ in.start = 3 =>
            /\ reads \in {<<>>, <<3>>}
            /\ pc = "oob_recovered" => (reads = <<3>> /\ idx = 3)

\* C5 witness: the loop of the code (from 3) panicked at index 3.
C5_Witness ==
    /\ pc = "oob_recovered"
    /\ in.test = "TestGoingOutOfBoundsAtRuntime"
    /\ in.start = 3
    /\ panicked
    /\ reads = <<3>>
    /\ runtimeCheck = <<1, 2, 3>>

Min(a, b) == IF a < b THEN a ELSE b

\* C6: after other := s[:hi] and a write through either variable, both
\* variables read the same element at every index they have in common, the
\* written value is read through both where the index is in range, and there is
\* still one backing array: the slice expression copied nothing.
C6_SubSliceSharesStorage ==
    (in.test = "TestSlicingSliceMemory" /\ pc \in {"ssm_store", "ssm_assert"}) =>
        /\ Len(heap) = 1
        /\ loc.other.len = in.hi
        /\ \A j \in 0..(Min(loc.s.len, loc.other.len) - 1) :
            Load(heap, loc.s, j) = Load(heap, loc.other, j)
        /\ (pc = "ssm_assert" /\ ~panicked) =>
            /\ InRange(loc.s, in.i) => Load(heap, loc.s, in.i) = in.v
            /\ InRange(loc.other, in.i) => Load(heap, loc.other, in.i) = in.v
        /\ (pc = "ssm_assert" /\ panicked) => ~InRange(loc[in.via], in.i)

\* C6 witness: the code's case: other := s[:5], s[0] = 100, and other[0] is 100.
C6_Witness ==
    /\ pc = "ssm_assert"
    /\ in.test = "TestSlicingSliceMemory"
    /\ in.hi = 5 /\ in.via = "s" /\ in.i = 0 /\ in.v = 100
    /\ ~panicked
    /\ Load(heap, loc.other, 0) = 100
    /\ Load(heap, loc.s, 0) = 100

InCapacityAllocation == in.test = "TestCapacityAllocation"

\* s is a slice over the whole of a backing array that was allocated after
\* array number older, and that is larger than it
OnNewLargerArray(s, older) ==
    /\ s.ptr > older
    /\ s.off = 0
    /\ Len(heap[s.ptr]) = s.cap
    /\ Len(heap[s.ptr]) > Len(heap[older])

\* C7: in TestCapacityAllocation every append finds len = cap and moves the
\* slice to a new, larger backing array: the empty slice (len 0, cap 0) gets
\* len 1, cap 1; the one-element slice gets len 2, cap 2 and then len 3, cap 4.
C7_AppendAtCapacityAllocates ==
    InCapacityAllocation =>
        /\ pc = "tca_append_empty" => (loc.empty.len = 0 /\ loc.empty.cap = 0)
        /\ pc \in {"tca_start", "tca_append2", "tca_append3", "tca_assert"} =>
            /\ loc.empty.len = 1 /\ loc.empty.cap = 1
            /\ OnNewLargerArray(loc.empty, 1)
        /\ pc = "tca_append2" => (loc.start.len = 1 /\ loc.start.cap = 1)
        /\ pc = "tca_append3" =>
            /\ loc.start.len = 2 /\ loc.start.cap = 2
            /\ OnNewLargerArray(loc.start, 3)
        /\ pc = "tca_assert" =>
            /\ loc.start.len = 3 /\ loc.start.cap = 4
            /\ OnNewLargerArray(loc.start, 4)

\* C7 witness: the third append happened and start has len 3, cap 4.
C7_Witness ==
    /\ pc = "tca_assert"
    /\ InCapacityAllocation
    /\ loc.start.len = 3
    /\ loc.start.cap = 4
    /\ Len(heap) = 5

InCommonMistake == in.test = "TestSliceCommonMistakeAppend"

\* C8: the slice made with length 10 and capacity 20 (in general n and n + 10)
\* stays on its array, with capacity 20, after every append that leaves the
\* length at most 20; the append that takes the length to 21 moves it to a new
\* array, with length 21 and capacity 40.
C8_NoResizeUntilCapacityExceeded ==
    InCommonMistake =>
        /\ pc = "scm_append1" =>
            (loc.s.len = in.n /\ loc.s.cap = in.c /\ loc.s.ptr = 1)
        /\ pc = "scm_append2" =>
            (loc.s.len = in.n + 1 /\ loc.s.cap = in.c /\ loc.s.ptr = 1 /\ Len(heap) = 1)
        /\ pc = "scm_assert" =>
            /\ loc.s.len = in.n + 1 + in.k
            /\ loc.s.len <= in.c => (loc.s.cap = in.c /\ loc.s.ptr = 1 /\ Len(heap) = 1)
            /\ loc.s.len > in.c =>
                (loc.s.cap > in.c /\ loc.s.ptr = 2 /\ Len(heap) = 2
                 /\ Len(heap[2]) = loc.s.cap)
            /\ (in.n = 10 /\ loc.s.len = 21) =>
                (loc.s.cap = 40 /\ loc.s.ptr = 2 /\ Len(heap) = 2 /\ Len(heap[2]) = 40)

\* C8 witness: the code's case: ten more values appended, length 21, capacity 40.
C8_Witness ==
    /\ pc = "scm_assert"
    /\ InCommonMistake
    /\ in.k = 10
    /\ in.n = 10
    /\ loc.s.len = 21
    /\ loc.s.cap = 40

\* slice s reads exactly the elements of the sequence want
Reads(s, want) ==
    /\ s.len = Len(want)
    /\ \A j \in 0..(s.len - 1) : Load(heap, s, j) = want[j + 1]

\* the zeros make put in the slice of TestSliceCommonMistakeAppend
MadeZeros == [j \in 1..in.n |-> 0]

\* C9: after each assigned append the slice reads its old elements, in order,
\* followed by the appended ones, in order, and its length is the sum; on the
\* slice made with length 10 (in general n) the appended element is at index
\* 10 (n) and indexes 0..9 (0..n-1) still read 0.
C9_AppendAddsAtEnd ==
    /\ (in.test = "TestSlicesAppend" /\ pc = "tsa_append2") =>
        Reads(loc.s, <<"A", "B", "C">> \o <<in.first>>)
    /\ (in.test = "TestSlicesAppend" /\ pc \in {"tsa_s2", "tsa_discard", "tsa_assert"}) =>
        Reads(loc.s, <<"A", "B", "C", in.first>> \o SubSeq(Line485Values, 1, in.m))
    /\ (InCommonMistake /\ pc = "scm_append2") =>
        /\ Reads(loc.s, MadeZeros \o <<in.v>>)
        /\ Load(heap, loc.s, in.n) = in.v
        /\ \A j \in 0..(in.n - 1) : Load(heap, loc.s, j) = 0
    /\ (InCommonMistake /\ pc = "scm_assert") =>
        Reads(loc.s, MadeZeros \o <<in.v>> \o SubSeq(Line583Values, 1, in.k))

\* C9 witness: the code's case: "Z" and then D, E, F appended to A, B, C.
C9_Witness ==
    /\ pc = "tsa_s2"
    /\ in.test = "TestSlicesAppend"
    /\ in.first = "Z" /\ in.m = 3
    /\ Elems(heap, loc.s) = <<"A", "B", "C", "Z", "D", "E", "F">>

\* C10: after _ = append(s2, v) on s2 = [1] the variable s2 still has length 1
\* and reads [1], although the append ran and built [1, v].
C10_DiscardedAppendLeavesSlice ==
    (in.test = "TestSlicesAppend" /\ pc = "tsa_assert") =>
        /\ loc.s2.len = 1
        /\ loc.s2.cap = 1
        /\ Load(heap, loc.s2, 0) = 1
        /\ Elems(heap, loc.s2) = <<1>>
        /\ SubSeq(heap[Len(heap)], 1, 2) = <<1, in.dropped>>

\* C10 witness: the code's case: 2 was appended and dropped, s2 reads [1].
C10_Witness ==
    /\ pc = "tsa_assert"
    /\ in.test = "TestSlicesAppend"
    /\ in.dropped = 2
    /\ heap[Len(heap)] = <<1, 2>>
    /\ Elems(heap, loc.s2) = <<1>>

InFunkySlicing == in.test = "TestFunkySlicingAppendCapacity"

ABCD == <<"A", "B", "C", "D">>

InFullSlice == in.test = "TestFullSliceExpression"

OneToFive == <<1, 2, 3, 4, 5>>

\* the values a later write could store
WrittenValues == {1000, 0, 77}

\* C13: s2 := s[:hi:max] has capacity max; when max = hi the next append moves
\* s2 to a new backing array: s2 reads its old elements and the appended one,
\* s still reads 1, 2, 3, 4, 5, and no write through s2, at any index, changes
\* what s reads.  With s[:2:2] and 1000: s2 = [1, 2, 1000].
C13_FullSliceExpressionCutsCapacity ==
    /\ (InFullSlice /\ pc = "fse_append") =>
        /\ loc.s2.cap = in.max
        /\ loc.s2.len = in.hi
        /\ (in.hi = 2 /\ in.max = 2) => loc.s2.cap = 2
    /\ (InFullSlice /\ pc = "fse_assert" /\ in.max = in.hi) =>
        /\ loc.s2.ptr # loc.s.ptr
        /\ Len(heap) = 2
        /\ Reads(loc.s, OneToFive)
        /\ Reads(loc.s2, SubSeq(OneToFive, 1, in.hi) \o <<in.elem>>)
        /\ \A i \in 0..(loc.s2.len - 1), v \in WrittenValues :
            Elems(Store(heap, loc.s2, i, v), loc.s) = OneToFive
        /\ (in.hi = 2 /\ in.elem = 1000) => Reads(loc.s2, <<1, 2, 1000>>)

\* C13 witness: the code's case, after the append.
C13_Witness ==
    /\ InFullSlice
    /\ pc = "fse_assert"
    /\ in.hi = 2 /\ in.max = 2 /\ in.elem = 1000
    /\ Elems(heap, loc.s2) = <<1, 2, 1000>>
    /\ Elems(heap, loc.s) = <<1, 2, 3, 4, 5>>

InCopySlice == in.test = "TestCopySlice"

OneTwoThree == <<1, 2, 3>>

\* what a destination of length n made of zeros holds after copying 1, 2, 3 into it
CopiedInto(n) == [j \in 1..n |-> IF j <= 3 THEN OneTwoThree[j] ELSE 0]

\* C14: copy stores the first min(len(dst), len(src)) elements of src in dst and
\* returns that count, whatever the capacity: into the nil slice it returns 0
\* and the slice stays empty; into a slice of length l it returns min(l, 3)
\* (3 for length 3, which then reads 1, 2, 3); into b of length bn, with or
\* without spare capacity, it leaves b reading the first min(bn, 3) elements
\* ([1, 2] for length 2) and the array beyond len(b) untouched.
C14_CopyCopiesMinLen ==
    InCopySlice =>
        /\ pc = "cp_make" =>
            (loc.n = 0 /\ loc.s2 = NilSlice /\ Elems(heap, loc.s2) = <<>>)
        /\ pc = "cp_app1" =>
            /\ loc.n = Min(in.l2, 3)
            /\ Reads(loc.s2, CopiedInto(in.l2))
            /\ Reads(loc.s1, OneTwoThree)
            /\ in.l2 = 3 => (loc.n = 3 /\ Reads(loc.s2, OneTwoThree))
        /\ pc = "cp_assert" =>
            /\ loc.b.len = in.bn
            /\ Reads(loc.b, CopiedInto(in.bn))
            /\ heap[loc.b.ptr] = CopiedInto(in.bn) \o [j \in 1..in.spare |-> 0]
            /\ Reads(loc.a, OneTwoThree)
            /\ in.bn = 2 => Reads(loc.b, <<1, 2>>)

\* C14 witness: the code's case at the end: b, made with length 2, reads [1, 2],
\* and the copy into the length-3 slice returned 3.
C14_Witness ==
    /\ InCopySlice
    /\ pc = "cp_assert"
    /\ in.l2 = 3 /\ in.bn = 2 /\ in.spare = 0
    /\ loc.n = 3
    /\ Elems(heap, loc.b) = <<1, 2>>

\* no write through slice x, at any of its indexes, changes what slice y reads
WritesInvisible(x, y) ==
    \A i \in 0..(x.len - 1), v \in WrittenValues :
        Elems(Store(heap, x, i, v), y) = Elems(heap, y)

\* C15: after s2 is made and filled by copy(s2, s1) the two slices are on
\* different arrays: no write through one changes what the other reads, the
\* append to s1 leaves s2 as copied and the append to s2 leaves s1 reading
\* 1, 2, 3, 100; with s2 made of length 3 they end as [1,2,3,100] and [1,2,3,200].
C15_CopyIsIndependent ==
    (InCopySlice /\ pc \in {"cp_app1", "cp_app2", "cp_a", "cp_b", "cp_copy3", "cp_assert"}) =>
        /\ loc.s1.ptr # loc.s2.ptr
        /\ WritesInvisible(loc.s1, loc.s2)
        /\ WritesInvisible(loc.s2, loc.s1)
        /\ pc = "cp_app2" =>
            /\ Reads(loc.s1, <<1, 2, 3, 100>>)
            /\ Reads(loc.s2, CopiedInto(in.l2))
        /\ pc \in {"cp_a", "cp_b", "cp_copy3", "cp_assert"} =>
            /\ Reads(loc.s1, <<1, 2, 3, 100>>)
            /\ Reads(loc.s2, CopiedInto(in.l2) \o <<200>>)
            /\ in.l2 = 3 => Reads(loc.s2, <<1, 2, 3, 200>>)

\* C15 witness: the code's case after both appends.
C15_Witness ==
    /\ InCopySlice
    /\ pc = "cp_a"
    /\ in.l2 = 3
    /\ Elems(heap, loc.s1) = <<1, 2, 3, 100>>
    /\ Elems(heap, loc.s2) = <<1, 2, 3, 200>>

InSliceClearing == in.test = "TestSliceClearing"

\* C16: before clear(s) the written element reads its value; after it every
\* element at index 0..len(s)-1 reads 0 and the length is what it was; for the
\* 100-element slice with s[99] = 10: len(s) is 100 and s[99] is 0.
C16_ClearZeroesKeepsLength ==
    InSliceClearing =>
        /\ ~panicked
        /\ loc.s.len = in.n
        /\ pc = "clr_clear" => Load(heap, loc.s, in.i) = in.v
        /\ pc = "clr_assert" =>
            /\ \A j \in 0..(loc.s.len - 1) : Load(heap, loc.s, j) = 0
            /\ in.n = 100 => (loc.s.len = 100 /\ Load(heap, loc.s, 99) = 0)

\* C16 witness: the code's case after clear.
C16_Witness ==
    /\ InSliceClearing
    /\ pc = "clr_assert"
    /\ in.n = 100 /\ in.i = 99 /\ in.v = 10
    /\ loc.s.len = 100
    /\ Load(heap, loc.s, 99) = 0

InArrayFromSlice == in.test = "TestArrayFromSlice"

FooBarBaz == <<"foo", "bar", "baz">>

\* no write of one of vals through slice x changes what y reads
WritesOfInvisible(x, y, vals) ==
    \A i \in 0..(x.len - 1), v \in vals :
        Elems(Store(heap, x, i, v), y) = Elems(heap, y)

\* C17: after arr := [3]string(s) the array reads the first three elements s
\* had, it is on memory of its own, and no write through s, at any index,
\* changes what it reads; the same holds of subArr := [2]int(sub[:hi]), which
\* reads 1, 2.
C17_ArrayFromSliceCopies ==
    /\ (InArrayFromSlice /\ pc \in {"afs_sub", "afs_subarr", "afs_assert"}) =>
        /\ loc.arr.ptr # loc.s.ptr
        /\ Reads(loc.arr, FooBarBaz)
        /\ Reads(loc.s, FooBarBaz)
        /\ WritesOfInvisible(loc.s, loc.arr, {"qux", ""})
    /\ (InArrayFromSlice /\ pc = "afs_assert" /\ ~panicked) =>
        /\ loc.subArr.ptr # loc.sub.ptr
        /\ Reads(loc.subArr, <<1, 2>>)
        /\ WritesOfInvisible(loc.sub, loc.subArr, WrittenValues)

\* C17 witness: both conversions of the code were made.
C17_Witness ==
    /\ InArrayFromSlice
    /\ pc = "afs_assert"
    /\ in.hi = 2
    /\ ~panicked
    /\ Elems(heap, loc.arr) = <<"foo", "bar", "baz">>
    /\ Elems(heap, loc.subArr) = <<1, 2>>

InSliceToPointerArray == in.test = "TestSliceToPointerArray"

\* C18: after a := (*[3]int)(s) and the store s[i] = v, for every i < 3, a[i]
\* reads v, and a reads at every index what s reads there.
C18_ArrayPointerSharesStorage ==
    (InSliceToPointerArray /\ pc = "spa_assert") =>
        /\ Load(heap, loc.s, in.i) = in.v
        /\ Load(heap, loc.a, in.i) = in.v
        /\ \A j \in 0..2 : Load(heap, loc.a, j) = Load(heap, loc.s, j)

\* C18 witness: the store of the code, s[0] = 100, is read through a.
C18_Witness ==
    /\ InSliceToPointerArray
    /\ pc = "spa_assert"
    /\ in.i = 0
    /\ in.v = 100
    /\ Elems(heap, loc.a) = <<100, 2, 3>>

InMakingSlice == in.test = "TestMakingSlice"

\* C19: the package-level variables declared without a value hold 0 (int,
\* float64, rune), false, "" and the nil slice, and every element of the
\* array declared without a value is 0, in every state; the tests read exactly
\* that; and s := make([]int, n, c) has length n, capacity c and 0 at every
\* index of its length and of its capacity.
C19_ZeroValues ==
    /\ pkg = "predeclared_types" =>
        /\ globals.zeroInteger = 0
        /\ globals.zeroFloat = 0
        /\ globals.zeroRune = 0
        /\ globals.zeroBool = FALSE
        /\ globals.zeroString = ""
    /\ pkg = "composite_types" =>
        /\ Len(globals.simpleArray) = 3
        /\ \A j \in 1..3 : globals.simpleArray[j] = 0
        /\ globals.multiDimensionSlice.ptr = 0
        /\ globals.multiDimensionSlice.len = 0
    /\ (in.test = "TestLiteralZeroValues" /\ pc = "lzv_assert") =>
        /\ loc.zeroInteger = 0
        /\ loc.zeroFloat = 0
        /\ loc.zeroBool = FALSE
        /\ loc.zeroString = ""
    /\ (in.test = "TestSimpleArray" /\ pc = "sa_assert") =>
        /\ loc.len = 3
        /\ reads = <<0, 0, 0>>
    /\ (in.test = "TestDefaultNilSlice" /\ pc = "dns_assert") =>
        loc.s.ptr = 0
    /\ (InMakingSlice /\ pc = "mks_assert") =>
        /\ loc.s.len = in.n
        /\ loc.s.cap = in.c
        /\ \A i \in 0..(in.n - 1) : Load(heap, loc.s, i) = 0
        /\ \A i \in 0..(in.c - 1) : heap[loc.s.ptr][loc.s.off + i + 1] = 0

\* C19 witness: the make of the code, make([]int, 100, 200), with s[99] and
\* s[0] reading 0.
C19_Witness ==
    /\ InMakingSlice
    /\ pc = "mks_assert"
    /\ in.n = 100
    /\ in.c = 200
    /\ loc.s.len = 100
    /\ loc.s.cap = 200
    /\ Load(heap, loc.s, 99) = 0
    /\ Load(heap, loc.s, 0) = 0

InSliceSlicing == in.test = "TestSliceSlicing"

\* C20: s1[a:b] has length b - a and its element i is s1[a + i], so that it
\* reads the elements a+1..b of 1, 2, 3, 4, 5; s[lo:] reads the elements of s
\* from lo to the last one, and s[:hi] the first hi of them.
C20_SliceExpressionHalfOpen ==
    /\ (InSliceSlicing /\ pc \in {"ssl_upto", "ssl_make", "ssl_append", "ssl_expected", "ssl_assert"}) =>
        /\ loc.from.len = 3 - in.lo
        /\ \A i \in 0..(loc.from.len - 1) :
            Load(heap, loc.from, i) = Load(heap, loc.s, in.lo + i)
        /\ Reads(loc.from, SubSeq(FooBarBaz, in.lo + 1, 3))
    /\ (InSliceSlicing /\ pc \in {"ssl_make", "ssl_append", "ssl_expected", "ssl_assert"}) =>
        /\ loc.upto.len = in.hi
        /\ \A i \in 0..(loc.upto.len - 1) :
            Load(heap, loc.upto, i) = Load(heap, loc.s, i)
        /\ Reads(loc.upto, SubSeq(FooBarBaz, 1, in.hi))
    /\ (InSliceSlicing /\ pc = "ssl_assert") =>
        /\ Reads(loc.s1, OneToFive)
        /\ loc.expected.len = in.b - in.a
        /\ \A i \in 0..(loc.expected.len - 1) :
            Load(heap, loc.expected, i) = Load(heap, loc.s1, in.a + i)
        /\ Reads(loc.expected, SubSeq(OneToFive, in.a + 1, in.b))

\* C20 witness: the expressions of the code, s[1:], s[:2] and s1[1:4], read
\* bar baz, foo bar and 2 3 4.
C20_Witness ==
    /\ InSliceSlicing
    /\ pc = "ssl_assert"
    /\ in.lo = 1 /\ in.hi = 2 /\ in.a = 1 /\ in.b = 4
    /\ Elems(heap, loc.from) = <<"bar", "baz">>
    /\ Elems(heap, loc.upto) = <<"foo", "bar">>
    /\ Elems(heap, loc.expected) = <<2, 3, 4>>

InStringIndexing == in.test = "TestStringIndexingMultiByte"

InStringSliceConv == in.test = "TestStringSliceConv"

\* the bytes code point r takes in a string
Utf8Width(r) == IF r < 128 THEN 1 ELSE IF r < 2048 THEN 2 ELSE IF r < 65536 THEN 3 ELSE 4

AppendedAt ==
    [tca_append_empty |-> "empty", tca_append2 |-> "start", tca_append3 |-> "start",
     scm_append1 |-> "s", scm_append2 |-> "s",
     tsa_append1 |-> "s", tsa_append2 |-> "s",
     fsa_append |-> "y", fse_append |-> "s2",
     cp_app1 |-> "s1", cp_app2 |-> "s2", ssl_append |-> "s1"]

\* the bytes of one element of the slice appended to at position p
ElemSizeAt(p) == IF p \in {"tsa_append1", "tsa_append2", "fsa_append"} THEN 16 ELSE 8

\* this step is the append at position p and its result does not fit the
\* capacity the slice had
AppendExceeds(p) ==
    /\ pc = p
    /\ loc'[AppendedAt[p]].len > loc[AppendedAt[p]].cap

\* the rule as the comment at lines 530-532 states it
ClaimedCap(c) == IF c < 256 THEN 2 * c ELSE c + ((c + 768) \div 4)

RECURSIVE QuarterSteps(_, _)
QuarterSteps(c, need) ==
    LET n == c + ((c + 768) \div 4) IN
    IF n >= need THEN n ELSE QuarterSteps(n, need)

\* the capacity asked of the allocator
AskedCap(c, need) ==
    IF need > 2 * c THEN need
    ELSE IF c < 256 THEN 2 * c
    ELSE QuarterSteps(c, need)

\* got is what the allocator hands out for a request of asked bytes: the
\* smallest size class that holds it, or whole pages above the largest class
IsSizeClassFor(asked, got) ==
    /\ got >= asked
    /\ \/ \E k \in 1..Len(SizeClasses) : SizeClasses[k] = got
       \/ (got > 32768 /\ got % 8192 = 0 /\ got - asked < 8192)
    /\ ~ \E k \in 1..Len(SizeClasses) : SizeClasses[k] >= asked /\ SizeClasses[k] < got

PowerOfTwo(n) == [i \in 1..(n + 1) |-> IF i = n + 1 THEN 1 ELSE 0]

\* the value of a 32-bit two's complement bit sequence
SignedValue32(x) == SmallValue(SubSeq(x, 1, 31)) + x[32] * ((-(2 ^ 30)) * 2)

AfterSmallIInc == InExerciseThree /\ pc \in {"ex3_bigI", "ex3_print", "ex3_assert"}

Compared == in.test = "TestStringComparison" /\ pc = "cmp_assert"

\* a is b cut short
IsProperPrefix(a, b) == Len(a) < Len(b) /\ a = SubSeq(b, 1, Len(a))

\* a comes before b in the order of the dictionary, on bytes: at the first
\* place where they differ a has the lower byte, or a has no byte there
LexLess(a, b) ==
    \E k \in 1..Len(b) :
        /\ k <= Len(a) + 1
        /\ \A j \in 1..(k - 1) : a[j] = b[j]
        /\ (k = Len(a) + 1 \/ a[k] < b[k])

ValueLocals ==
    {"n", "len", "cap", "str", "one", "last", "codePoint", "end",
     "eq", "ne", "lt", "gt", "zeroInteger", "zeroFloat", "zeroBool", "zeroString"}
        \cup (IF InStringIndexing THEN {"start"} ELSE {})

\* the locals that hold a slice or an array
SliceLocals == DOMAIN loc \ ValueLocals

\* the locals that hold an array (or point to one)
ArrayLocals ==
    SliceLocals \cap (IF InArrayFromSlice THEN {"arr", "subArr"}
                      ELSE IF InSliceToPointerArray THEN {"a"} ELSE {})

\* C27: in every state every slice of the running test has 0 <= len <= cap
\* and lies within its backing array; every array made from a slice has
\* cap = len, and so have the package-level arrays.
C27_LenWithinCap ==
    /\ \A name \in SliceLocals :
        /\ 0 <= loc[name].len
        /\ loc[name].len <= loc[name].cap
        /\ 0 <= loc[name].off
        /\ loc[name].ptr # 0 =>
            loc[name].off + loc[name].cap <= Len(heap[loc[name].ptr])
        /\ loc[name].ptr = 0 => loc[name].cap = 0
    /\ \A name \in ArrayLocals : loc[name].cap = loc[name].len
    /\ ArrayCap(runtimeCheck) = ArrayLen(runtimeCheck)
    /\ pkg = "composite_types" =>
        /\ ArrayCap(globals.simpleArray) = ArrayLen(globals.simpleArray)
        /\ ArrayCap(globals.initializedArray) = ArrayLen(globals.initializedArray)
    /\ (in.test = "TestInitializedArray" /\ pc = "ia_assert") =>
        (loc.len = 5 /\ loc.cap = loc.len)

\* C27 witness: after a literal, a slice expression and an append: y := s[1:2]
\* with one element appended has len 2, cap 3, and s len 4, cap 4.
C27_Witness ==
    /\ InFunkySlicing
    /\ pc = "fsa_assert"
    /\ in.lo = 1 /\ in.hi = 2
    /\ loc.y.len = 2 /\ loc.y.cap = 3
    /\ loc.s.len = 4 /\ loc.s.cap = 4

\* the test named is at its assertions
AtAssert(test, at) == in.test = test /\ pc = at

\* C28: in every state, whatever tests ran before and in whatever order, the
\* package-level variables hold what they held when the program started;
\* between tests nothing of a test is left (no local, no array, no panic); and
\* each test that reads a package-level variable reads the same values
\* whenever it runs.
C28_NoTestWritesPackageVariables ==
    /\ globals = PackageVars(pkg)
    /\ runtimeCheck = <<1, 2, 3>>
    /\ pc = "idle" =>
        /\ in = NoInput
        /\ heap = <<>>
        /\ loc = NoLoc
        /\ ~panicked
        /\ idx = 0
        /\ reads = <<>>
        /\ num = NoNum
    /\ AtAssert("TestSparseArray", "sparse_assert") => reads = <<100, 200, 0, 0, 0>>
    /\ AtAssert("TestSimpleArray", "sa_assert") => reads = <<0, 0, 0>>
    /\ AtAssert("TestBasicSlice", "bs_assert") => reads = <<0, 0>>
    /\ AtAssert("TestPopulatedSlice", "ps_assert") => reads = <<10, 20, 30, 0, 50>>
    /\ AtAssert("TestCannotCompareSlice", "ccs_assert") => reads = <<FALSE>>
    /\ AtAssert("TestCompareUsingSlicesPackage", "cus_assert") => reads = <<TRUE>>
    /\ AtAssert("TestLenOfSlice", "los_assert") => reads = <<2>>

\* C28 witness: TestSparseArray read 100, 200, 0, 0, 0 and the package-level
\* variables are as the program started them.
C28_Witness ==
    /\ AtAssert("TestSparseArray", "sparse_assert")
    /\ reads = <<100, 200, 0, 0, 0>>
    /\ globals.sparseArray = <<100, 0, 200, 0, 0>>
    /\ globals.myPopulatedSlice.elems = <<10, 20, 30, 0, 50>>

====
